---- MODULE Spec2Model ----
(***************************************************************************)
(* Model of mcp_proxy_engine: the path router and the execution engine of  *)
(* handlers/function_handler.py, the tenant function list built by         *)
(* handlers/config.py, and the retrying transport pool of                  *)
(* handlers/http2_client.py.                                               *)
(*                                                                         *)
(* Strings are sequences of one-character strings, so that splitting,      *)
(* placeholder substitution and regular-expression matching are computed   *)
(* character by character as the code computes them.                       *)
(***************************************************************************)
EXTENDS Integers, Sequences, FiniteSets, TLC

\* ------------------------------------------------------------------------
\* Bounds of the model
\* ------------------------------------------------------------------------
MaxPathLen == 4        \* longest request path, leading "/" included
MaxMappings == 2       \* most keys of the response-mapping table
MaxServers == 2        \* most MCP servers of one endpoint
MaxCalls == 3          \* most tool calls in one batch
MaxRetriesBound == 3   \* largest configured max_retries
MaxRequests == 2       \* most requests in flight on one pool
MaxTicks == 2          \* most advances of the clock
MaxEntries == 2        \* most entries of the method caches
MaxThreads == 2        \* most threads that dispatch at the same time
MaxPools == 3          \* most pools a manager creates in its life

\* ------------------------------------------------------------------------
\* Values
\* ------------------------------------------------------------------------
None == "None"
Undefined == "AttributeError"   \* a class attribute that was never assigned

WordChars == {"a", "b", "x", "y"}
PathChars == {"/", "a", "b", "."}

\* Tool names the remote servers may expose.
ToolNames == {<<"a">>, <<"a", ".", "b">>}

\* Function names a caller of the execution engine may ask for.
CallNames == {<<"a">>, <<"b">>}

\* Keys of the response-mapping table (path templates).
Templates ==
    { <<"/", "a">>,
      <<"/", "a", "/", "b">>,
      <<"/", "a", "/", "{", "x", "}">>,
      <<"/", "a", "/", "{", "y", "}">>,
      <<"/", "a", ".", "b">>,
      <<"/", "a", "/", "{", "x", "}", "{", "x", "}">>,
      <<"/", "a", "/", "{", "}">> }

\* Sequences over S of length lo..hi.
SeqsBetween(S, lo, hi) == UNION {[1..n -> S] : n \in lo..hi}

\* Sequences over S without repetition, of length 0..hi (a dict's keys).
DistinctSeqs(S, hi) ==
    {s \in SeqsBetween(S, 0, hi) : \A i, j \in 1..Len(s) : s[i] = s[j] => i = j}

\* ------------------------------------------------------------------------
\* State
\* ------------------------------------------------------------------------
VARIABLES
    \* class Config (shared class attributes)
    response_mappings,           \* Config.response_mappings, keys in dict order
    mcp_servers,                 \* Config.mcp_servers, each with the tools it exposes
    functions,                   \* Config.functions
    mcp_http_clients,            \* Config.mcp_http_clients
    enable_concurrent_requests,  \* Config.enable_concurrent_requests
    \* get_function_name_and_path_parameters
    path,                        \* the path argument
    route,                       \* what the call returned or raised
    \* execute_function / execute_concurrent_functions
    tool_calls,                  \* the tool_calls argument
    batch,                       \* the running batch call
    tasks,                       \* coroutines handed to asyncio.gather
    ef,                          \* the running execute_function call
    sessions,                    \* per client: sessions entered and not exited
    log,                         \* per client: what reached the client
    \* HTTP2ClientPool
    max_retries,                 \* self.max_retries
    metrics,                     \* self.metrics
    requests,                    \* the _request_with_retry calls
    \* Config._convert_mcp_tools_to_functions and
    \* Config._convert_input_schema_to_parameters called on their own
    converted,                   \* the arguments and result of a conversion
    translated,                  \* the arguments and result of a translation
    \* Config.initialize_for_endpoint
    endpoint_data,               \* Config._endpoint_data
    built_at,                    \* per cached endpoint: when its entry was written
    remote,                      \* per endpoint: the MCP servers the platform lists
    now,                         \* the clock
    init_call,                   \* the last initialize_for_endpoint call
    \* McpProxyEngine.mcp_proxy_dispatch
    dispatch,                    \* the running or last dispatched request
    \* method_cache around the memoized steps of Config
    method_cache,                \* the keys that hold a computed value
    memo_call,                   \* the last call of a memoized step
    \* HTTP2ClientManager
    manager,                     \* self.clients, the pools and the close_all call
    \* threads that call mcp_proxy_dispatch at the same time
    threads,                     \* per thread: its request and where it stands
    aliased                      \* the cached lists Config.functions and
                                 \* Config.mcp_http_clients are bound to

configVars == <<response_mappings, mcp_servers, functions, mcp_http_clients,
                enable_concurrent_requests>>
routerVars == <<path, route>>
engineVars == <<tool_calls, batch, tasks, ef, sessions, log>>
poolVars == <<max_retries, metrics, requests>>
convertVars == <<converted, translated>>
registryVars == <<endpoint_data, built_at, remote, now, init_call>>
dispatchVars == <<dispatch>>
memoVars == <<method_cache, memo_call>>
threadVars == <<threads, aliased>>
otherVars == <<memoVars, manager, threadVars>>
vars == <<response_mappings, mcp_servers, functions, mcp_http_clients,
          enable_concurrent_requests, path, route, tool_calls, batch, tasks,
          ef, sessions, log, max_retries, metrics, requests,
          converted, translated, endpoint_data, built_at, remote, now, init_call, dispatch,
          method_cache, memo_call, manager, threads, aliased>>

\* ------------------------------------------------------------------------
\* String helpers (Python str / re semantics on character sequences)
\* ------------------------------------------------------------------------
Contains(s, c) == \E i \in 1..Len(s) : s[i] = c

\* Index of the first c in s at or after position i; Len(s)+1 when absent.
RECURSIVE FindFrom(_, _, _)
FindFrom(s, c, i) ==
    IF i > Len(s) THEN Len(s) + 1
    ELSE IF s[i] = c THEN i
    ELSE FindFrom(s, c, i + 1)

\* str.split(sep): the segments between separators, empty ones kept.
RECURSIVE SplitFrom(_, _, _)
SplitFrom(s, sep, i) ==
    LET k == FindFrom(s, sep, i)
    IN  IF k > Len(s) THEN <<SubSeq(s, i, Len(s))>>
        ELSE <<SubSeq(s, i, k - 1)>> \o SplitFrom(s, sep, k + 1)

Split(s, sep) == SplitFrom(s, sep, 1)

\* Length of the longest run of word characters starting at position i.
RECURSIVE WordRun(_, _)
WordRun(s, i) ==
    IF i <= Len(s) /\ s[i] \in WordChars THEN 1 + WordRun(s, i + 1) ELSE 0

\* A placeholder {name} starts at position i: "{", one or more word
\* characters, "}".
PlaceholderAt(s, i) ==
    /\ i <= Len(s)
    /\ s[i] = "{"
    /\ WordRun(s, i + 1) >= 1
    /\ i + WordRun(s, i + 1) + 1 <= Len(s)
    /\ s[i + WordRun(s, i + 1) + 1] = "}"

\* re.findall(r"\{(\w+)\}", path): the placeholder names, left to right.
RECURSIVE ExtractFrom(_, _)
ExtractFrom(s, i) ==
    IF i > Len(s) THEN <<>>
    ELSE IF PlaceholderAt(s, i)
         THEN <<SubSeq(s, i + 1, i + WordRun(s, i + 1))>>
              \o ExtractFrom(s, i + WordRun(s, i + 1) + 2)
         ELSE ExtractFrom(s, i + 1)

extract_path_variables(p) == ExtractFrom(p, 1)

\* re.sub(r"{(\w+)}", r"(?P<\1>[^/]+)", path) read as a regular expression:
\* a named group per placeholder; of the characters left over "." matches
\* any character and the others match themselves.
RECURSIVE PatternFrom(_, _)
PatternFrom(s, i) ==
    IF i > Len(s) THEN <<>>
    ELSE IF PlaceholderAt(s, i)
         THEN <<[kind |-> "group", val |-> SubSeq(s, i + 1, i + WordRun(s, i + 1))]>>
              \o PatternFrom(s, i + WordRun(s, i + 1) + 2)
         ELSE IF s[i] = "."
              THEN <<[kind |-> "any", val |-> <<s[i]>>]>> \o PatternFrom(s, i + 1)
              ELSE <<[kind |-> "literal", val |-> <<s[i]>>]>> \o PatternFrom(s, i + 1)

Pattern(template) == PatternFrom(template, 1)

\* re.compile rejects a pattern that defines a group name twice.
PatternError(template) ==
    LET names == extract_path_variables(template)
    IN  \E i, j \in 1..Len(names) : i # j /\ names[i] = names[j]

\* Length of the longest run of non-"/" characters starting at position j.
RECURSIVE SegmentRun(_, _)
SegmentRun(s, j) ==
    IF j <= Len(s) /\ s[j] # "/" THEN 1 + SegmentRun(s, j + 1) ELSE 0

\* Backtracking match of pat[i..] against s[j..] up to the end of s; a group
\* is greedy: the longest capture that lets the rest match is taken.
RECURSIVE MatchFrom(_, _, _, _)
RECURSIVE MatchGroup(_, _, _, _, _)
MatchFrom(pat, i, s, j) ==
    IF i > Len(pat) THEN [ok |-> j = Len(s) + 1, groups |-> <<>>]
    ELSE IF pat[i].kind = "group" THEN MatchGroup(pat, i, s, j, SegmentRun(s, j))
    ELSE IF j <= Len(s) /\ (pat[i].kind = "any" \/ pat[i].val = <<s[j]>>)
         THEN MatchFrom(pat, i + 1, s, j + 1)
         ELSE [ok |-> FALSE, groups |-> <<>>]

MatchGroup(pat, i, s, j, k) ==
    IF k < 1 THEN [ok |-> FALSE, groups |-> <<>>]
    ELSE LET rest == MatchFrom(pat, i + 1, s, j + k)
         IN  IF rest.ok
             THEN [ok |-> TRUE,
                   groups |-> (pat[i].val :> SubSeq(s, j, j + k - 1)) @@ rest.groups]
             ELSE MatchGroup(pat, i, s, j, k - 1)

\* re.fullmatch(pattern, path)
fullmatch(template, p) == MatchFrom(Pattern(template), 1, p, 1)

\* ------------------------------------------------------------------------
\* Path router
\* ------------------------------------------------------------------------
\* The loop of get_function_name_and_path_parameters from function i on.
\* kind "not_found" is the return value (None, None); kind "error" is the
\* exception re-raised by the except clause.
RECURSIVE WalkFunctions(_, _, _)
WalkFunctions(fs, p, i) ==
    IF i > Len(fs)
    THEN [kind |-> "not_found", function_name |-> <<>>, path_parameters |-> <<>>]
    ELSE IF PatternError(fs[i].path)
    THEN [kind |-> "error", function_name |-> <<>>, path_parameters |-> <<>>]
    ELSE IF fullmatch(fs[i].path, p).ok
    THEN [kind |-> "found", function_name |-> fs[i].function_name,
          path_parameters |-> fullmatch(fs[i].path, p).groups]
    ELSE WalkFunctions(fs, p, i + 1)

\* Variant: the functions are walked from the last one to the first.
RECURSIVE WalkFunctionsBackwards(_, _, _)
WalkFunctionsBackwards(fs, p, i) ==
    IF i < 1
    THEN [kind |-> "not_found", function_name |-> <<>>, path_parameters |-> <<>>]
    ELSE IF PatternError(fs[i].path)
    THEN [kind |-> "error", function_name |-> <<>>, path_parameters |-> <<>>]
    ELSE IF fullmatch(fs[i].path, p).ok
    THEN [kind |-> "found", function_name |-> fs[i].function_name,
          path_parameters |-> fullmatch(fs[i].path, p).groups]
    ELSE WalkFunctionsBackwards(fs, p, i - 1)

last_function_name_and_path_parameters(fs, p) == WalkFunctionsBackwards(fs, p, Len(fs))

get_function_name_and_path_parameters(fs, p) == WalkFunctions(fs, p, 1)

\* ------------------------------------------------------------------------
\* Building the tenant's functions and client bindings
\* ------------------------------------------------------------------------
\* A dict is a record that has a field per key; a dict whose order matters
\* (the properties of a schema) is a sequence of [name, def] pairs.
\* dict.get(k, default)
Get(d, k, default) == IF k \in DOMAIN d THEN d[k] ELSE default

\* The keys a dict gets only under a condition.
Opt(cond, d) == IF cond THEN d ELSE <<>>

\* x in list
InList(x, list) == \E k \in 1..Len(list) : list[k] = x

map_json_schema_type(json_type) ==
    CASE json_type = "string" -> "string"
      [] json_type = "number" -> "float"
      [] json_type = "integer" -> "integer"
      [] json_type = "boolean" -> "boolean"
      [] json_type = "array" -> "list"
      [] json_type = "object" -> "dict"
      [] OTHER -> "string"

\* _convert_nested_properties: name and type of every nested property, and
\* below it the properties of an object or of an array's object items.
RECURSIVE convert_nested_properties(_)
convert_nested_properties(properties) ==
    [k \in 1..Len(properties) |->
        LET prop_def == properties[k].def
        IN  [name |-> properties[k].name,
             type |-> map_json_schema_type(Get(prop_def, "type", "string"))]
            @@ (IF Get(prop_def, "type", None) = "object" /\ "properties" \in DOMAIN prop_def
                THEN [properties |-> convert_nested_properties(prop_def.properties)]
                ELSE IF Get(prop_def, "type", None) = "array" /\ "items" \in DOMAIN prop_def
                THEN [child_type |-> map_json_schema_type(Get(prop_def.items, "type", "string"))]
                     @@ Opt(/\ Get(prop_def.items, "type", None) = "object"
                            /\ "properties" \in DOMAIN prop_def.items,
                            [properties |-> convert_nested_properties(prop_def.items.properties)])
                ELSE <<>>)]

\* Variant: the request body for every method but GET.
param_in_body_unless_get(method, prop_name, path_variables) ==
    IF method # "GET" THEN "body"
    ELSE IF InList(prop_name, path_variables) THEN "path"
    ELSE "query"

\* Where a top-level parameter travels.
param_in(method, prop_name, path_variables) ==
    IF method = "POST" THEN "body"
    ELSE IF InList(prop_name, path_variables) THEN "path"
    ELSE "query"

\* _convert_input_schema_to_parameters: one parameter per declared top-level
\* property, in declaration order.
convert_input_schema_to_parameters(input_schema, method, path_variables) ==
    LET properties == Get(input_schema, "properties", <<>>)
        required_fields == Get(input_schema, "required", {})
    IN  [k \in 1..Len(properties) |->
            LET prop_name == properties[k].name
                prop_def == properties[k].def
            IN  [name |-> prop_name,
                 in |-> param_in(method, prop_name, path_variables),
                 type |-> map_json_schema_type(Get(prop_def, "type", "string")),
                 required |-> prop_name \in required_fields]
                @@ Opt("description" \in DOMAIN prop_def,
                       [description |-> Get(prop_def, "description", None)])
                @@ (IF Get(prop_def, "type", None) = "object"
                    THEN Opt("properties" \in DOMAIN prop_def,
                             [properties |-> convert_nested_properties(
                                                 Get(prop_def, "properties", <<>>))])
                    ELSE IF Get(prop_def, "type", None) = "array" /\ "items" \in DOMAIN prop_def
                    THEN [child_type |-> map_json_schema_type(Get(prop_def.items, "type", "string"))]
                         @@ Opt(/\ Get(prop_def.items, "type", None) = "object"
                                /\ "properties" \in DOMAIN prop_def.items,
                                [properties |-> convert_nested_properties(prop_def.items.properties)])
                    ELSE <<>>)
                @@ Opt("enum" \in DOMAIN prop_def, [enum |-> Get(prop_def, "enum", <<>>)])
                @@ Opt("default" \in DOMAIN prop_def,
                       [default |-> Get(prop_def, "default", None)])]

\* Variant: the parameters are translated as those of a GET function.
function_parameters_as_get(tool, method, path_variables) ==
    convert_input_schema_to_parameters(tool.input_schema, "GET", path_variables)

\* The parameters of the function made from a tool.
function_parameters(tool, method, path_variables) ==
    convert_input_schema_to_parameters(tool.input_schema, method, path_variables)

\* The loop of _convert_mcp_tools_to_functions over the mapping keys from
\* key i on; tools is tools_by_name, the discovered tools by their names.
\* The response configuration of a key is carried over unread and is left
\* out of the function, as are summary and the is_mcp_tool mark.
RECURSIVE ConvertFrom(_, _, _, _)
ConvertFrom(tools, mcp_server_name, mappings, i) ==
    IF i > Len(mappings) THEN <<>>
    ELSE LET p == mappings[i]
             path_parts == Split(p, "/")
         IN  IF Len(path_parts) < 2
             THEN ConvertFrom(tools, mcp_server_name, mappings, i + 1)
             ELSE IF path_parts[2] \notin DOMAIN tools
             THEN ConvertFrom(tools, mcp_server_name, mappings, i + 1)
             ELSE LET has_path_variables == Contains(p, "{") /\ Contains(p, "}")
                      method == IF has_path_variables THEN "GET" ELSE "POST"
                  IN  <<[path |-> p,
                         method |-> method,
                         function_name |-> path_parts[2],
                         parameters |-> function_parameters(
                                            tools[path_parts[2]], method,
                                            extract_path_variables(p)),
                         mcp_server |-> mcp_server_name]>>
                      \o ConvertFrom(tools, mcp_server_name, mappings, i + 1)

\* Variant: only the first key of the mapping table is looked at.
convert_first_mapping_only(tools, mcp_server_name, mappings) ==
    IF mappings = <<>> THEN <<>>
    ELSE ConvertFrom(tools, mcp_server_name, <<mappings[1]>>, 1)

convert_mcp_tools_to_functions(tools, mcp_server_name, mappings) ==
    ConvertFrom(tools, mcp_server_name, mappings, 1)

\* What get_mcp_tools returns for a server, by tool name: every tool
\* declares one required string property x.
list_tools(server) ==
    [n \in server.tools |->
        [input_schema |-> [properties |-> <<[name |-> <<"x">>, def |-> [type |-> "string"]]>>,
                           required |-> {<<"x">>}]]]

\* The loop of initialize_for_endpoint over the servers from server i on:
\* the functions of every server, appended in server order.
RECURSIVE FunctionsFrom(_, _, _)
FunctionsFrom(servers, mappings, i) ==
    IF i > Len(servers) THEN <<>>
    ELSE convert_mcp_tools_to_functions(list_tools(servers[i]), servers[i].name, mappings)
         \o FunctionsFrom(servers, mappings, i + 1)

\* One binding per server, in server order; the client is named after its
\* server.
ClientsOf(servers) ==
    [i \in 1..Len(servers) |->
        [name |-> servers[i].name, client |-> servers[i].name,
         tools |-> servers[i].tools]]

\* The server lists an endpoint may resolve to.
ServerName(i) == "s" \o ToString(i)
ServerListsOver(names) ==
    {[i \in 1..Len(ts) |-> [name |-> ServerName(i), tools |-> ts[i]]] :
        ts \in SeqsBetween(SUBSET names, 0, MaxServers)}

\* Class Config once initialize_for_endpoint has returned.
InitConfig(mappingSet, serverSet) ==
    /\ response_mappings \in mappingSet
    /\ mcp_servers \in serverSet
    /\ functions = FunctionsFrom(mcp_servers, response_mappings, 1)
    /\ mcp_http_clients = ClientsOf(mcp_servers)
    /\ enable_concurrent_requests \in {Undefined, "True", "False"}

\* ------------------------------------------------------------------------
\* Execution engine: values and pure steps
\* ------------------------------------------------------------------------
\* What a coroutine or call produced: nothing yet, a returned value, or a
\* raised exception (its type and the function it is about).
Nothing == [kind |-> "none", value |-> <<>>]
Returned(v) == [kind |-> "result", value |-> v]
Raised(type, fn) ==
    [kind |-> "exception", value |-> <<[error |-> type, function_name |-> fn]>>]

\* The content list a tool returns on success, and what call_tool may do.
Content(fn) == <<[type |-> "text", text |-> <<"r", ":">> \o fn]>>
ToolOutcomes(fn) == {Returned(Content(fn)), Returned(<<>>), Raised("ToolError", fn)}

\* next((client for client in Config.mcp_http_clients
\*       if function_name in client["tools"]), None): the index of the first
\* binding that serves fn, 0 for None.
RECURSIVE FindClientFrom(_, _, _)
FindClientFrom(clients, fn, i) ==
    IF i > Len(clients) THEN 0
    ELSE IF fn \in clients[i].tools THEN i
    ELSE FindClientFrom(clients, fn, i + 1)

\* Variant: falls back to the first binding when none serves fn.
FindClientOrFirst(clients, fn) ==
    IF FindClientFrom(clients, fn, 1) # 0 THEN FindClientFrom(clients, fn, 1)
    ELSE IF Len(clients) > 0 THEN 1 ELSE 0

FindClient(clients, fn) == FindClientFrom(clients, fn, 1)

\* Variant: the loop ends at the first call without a client.
RECURSIVE BuildTasksUntilUnbound(_, _, _)
BuildTasksUntilUnbound(clients, calls, i) ==
    IF i > Len(calls) THEN <<>>
    ELSE LET k == FindClient(clients, calls[i])
         IN  IF k # 0
             THEN <<[call |-> i, function_name |-> calls[i],
                     client |-> clients[k].client, pc |-> "created",
                     raw |-> Nothing, outcome |-> Nothing]>>
                  \o BuildTasksUntilUnbound(clients, calls, i + 1)
             ELSE <<>>

\* The task-building loop of _run_concurrent_mcp_tools from call i on: one
\* coroutine per call that has a client, nothing for the others.  Field
\* call records the input position the coroutine was created for.
RECURSIVE BuildTasks(_, _, _)
BuildTasks(clients, calls, i) ==
    IF i > Len(calls) THEN <<>>
    ELSE LET k == FindClient(clients, calls[i])
         IN  IF k # 0
             THEN <<[call |-> i, function_name |-> calls[i],
                     client |-> clients[k].client, pc |-> "created",
                     raw |-> Nothing, outcome |-> Nothing]>>
                  \o BuildTasks(clients, calls, i + 1)
             ELSE BuildTasks(clients, calls, i + 1)

\* Variant: gather without return_exceptions, the first exception is raised.
gather_raising(ts) ==
    IF \E j \in 1..Len(ts) : ts[j].outcome.kind = "exception"
    THEN [pc |-> "raised", results |-> <<>>,
          error |-> ts[CHOOSE j \in 1..Len(ts) :
                          /\ ts[j].outcome.kind = "exception"
                          /\ \A k \in 1..(j - 1) : ts[k].outcome.kind # "exception"].outcome]
    ELSE [pc |-> "returned", results |-> [j \in 1..Len(ts) |-> ts[j].outcome],
          error |-> Nothing]

\* asyncio.gather(*tasks, return_exceptions=True) once every task is done:
\* one slot per task, in task order, holding its result or its exception.
gather(ts) ==
    [pc |-> "returned", results |-> [j \in 1..Len(ts) |-> ts[j].outcome],
     error |-> Nothing]

\* result[0]["text"] in execute_function; an empty list raises IndexError.
ExtractText(raw, fn) ==
    IF raw.kind = "exception" THEN raw
    ELSE IF Len(raw.value) = 0 THEN Raised("IndexError", fn)
    ELSE Returned(raw.value[1].text)

\* Variant: leaving the block does not release the session.
aexit_leaking(open, c) == open

\* __aexit__ of the client's session.
aexit(open, c) == [open EXCEPT ![c] = @ - 1]

\* Variant: a failing call is recorded in the list and the next call is due.
CollectAll(b, o) == [b EXCEPT !.results = Append(@, o), !.i = @ + 1]

\* The list comprehension of execute_concurrent_functions after the call at
\* position b.i ended with outcome o: an exception leaves the comprehension,
\* a value is appended and the next call is due.
Collect(b, o) ==
    IF o.kind = "exception"
    THEN [b EXCEPT !.pc = "raised", !.error = o]
    ELSE [b EXCEPT !.results = Append(@, o), !.i = @ + 1]

\* ------------------------------------------------------------------------
\* Values of the parts of the state a specification leaves alone
\* ------------------------------------------------------------------------
NoRoute == [kind |-> "none", function_name |-> <<>>, path_parameters |-> <<>>]
NoBatch == [pc |-> "idle", mode |-> "none", i |-> 0, started |-> <<>>,
            results |-> <<>>, error |-> Nothing]
NoCall == [pc |-> "idle", function_name |-> <<>>, client |-> None,
           raw |-> Nothing, outcome |-> Nothing]

RouterIdle == path = <<>> /\ route = NoRoute
EngineIdle ==
    /\ tool_calls = <<>>
    /\ batch = NoBatch
    /\ tasks = <<>>
    /\ ef = NoCall
    /\ sessions = <<>>
    /\ log = <<>>
PoolIdle == max_retries = 0 /\ metrics = <<>> /\ requests = <<>>

\* No memoized step was called, no manager exists, no thread runs.
NoMemoCall == [step |-> None, key |-> <<>>, hit |-> FALSE]
MemoIdle == method_cache = {} /\ memo_call = NoMemoCall
ManagerIdle == manager = <<>>
NoAlias == [functions |-> None, mcp_http_clients |-> None]
ThreadsIdle == threads = <<>> /\ aliased = NoAlias
OtherIdle == MemoIdle /\ ManagerIdle /\ ThreadsIdle

NoInit ==
    [endpoint |-> None, outcome |-> "none", failed |-> "none", at |-> 0, cached |-> FALSE,
     lookups |-> 0, discoveries |-> 0, clients |-> 0]
RegistryIdle ==
    /\ endpoint_data = <<>>
    /\ built_at = <<>>
    /\ remote = <<>>
    /\ now = 0
    /\ init_call = NoInit

NoDispatch == [pc |-> "idle", endpoint |-> None, outcome |-> Nothing]
DispatchIdle == dispatch = NoDispatch

NoConversion ==
    [done |-> FALSE, tools |-> <<>>, mcp_server_name |-> "", response_mappings |-> <<>>,
     result |-> <<>>]
NoTranslation ==
    [done |-> FALSE, input_schema |-> [required |-> {}], method |-> "",
     path_variables |-> <<>>, result |-> <<>>]
ConvertIdle == converted = NoConversion /\ translated = NoTranslation
ConfigIdle ==
    /\ response_mappings = <<>>
    /\ mcp_servers = <<>>
    /\ functions = <<>>
    /\ mcp_http_clients = <<>>
    /\ enable_concurrent_requests = Undefined

\* ------------------------------------------------------------------------
\* Specification of the router
\* ------------------------------------------------------------------------
\* Request paths as mcp_proxy_dispatch builds them: "/" and then the
\* non-empty path of the request.
RequestPaths == {<<"/">> \o s : s \in SeqsBetween(PathChars, 1, MaxPathLen - 1)}

InitRouter ==
    /\ InitConfig(DistinctSeqs(Templates, MaxMappings), ServerListsOver(ToolNames))
    /\ enable_concurrent_requests = Undefined
    /\ path \in RequestPaths
    /\ route = NoRoute
    /\ EngineIdle
    /\ PoolIdle
    /\ OtherIdle
    /\ ConvertIdle
    /\ RegistryIdle
    /\ DispatchIdle

\* One call get_function_name_and_path_parameters(logger, path).
Resolve ==
    /\ route.kind = "none"
    /\ route' = get_function_name_and_path_parameters(functions, path)
    /\ UNCHANGED <<configVars, convertVars, registryVars, dispatchVars, path, engineVars, poolVars, otherVars>>

NextRouter == Resolve

SpecRouter == InitRouter /\ [][NextRouter]_vars

\* ------------------------------------------------------------------------
\* Specification of the conversion of discovered tools
\* ------------------------------------------------------------------------
\* Input schemas a tool may declare: none or several top-level properties,
\* named like a placeholder or not, required or not, typed or not, with
\* nested objects and arrays of objects.
InputSchemas ==
    { [required |-> {}],
      [properties |-> <<[name |-> <<"x">>, def |-> [type |-> "string"]]>>,
       required |-> {<<"x">>}],
      [properties |-> <<[name |-> <<"q">>,
                         def |-> [type |-> "integer", description |-> "d", default |-> "0"]]>>,
       required |-> {}],
      [properties |-> <<[name |-> <<"x">>,
                         def |-> [type |-> "object",
                                  properties |-> <<[name |-> <<"y">>,
                                                    def |-> [type |-> "number"]]>>]],
                        [name |-> <<"q">>,
                         def |-> [type |-> "array",
                                  items |-> [type |-> "object",
                                             properties |-> <<[name |-> <<"x">>,
                                                               def |-> [type |-> "boolean"]]>>]]]>>,
       required |-> {<<"q">>}],
      [properties |-> <<[name |-> <<"y">>, def |-> [type |-> "string", enum |-> <<"u", "v">>]],
                        [name |-> <<"x">>, def |-> [description |-> "d"]]>>],
      [properties |-> <<[name |-> <<"q">>,
                         def |-> [type |-> "object",
                                  properties |-> <<[name |-> <<"x">>,
                                                    def |-> [type |-> "string"]]>>]]>>,
       required |-> {<<"q">>}],
      [properties |-> <<[name |-> <<"x">>, def |-> [type |-> "tuple"]],
                        [name |-> <<"y">>, def |-> [type |-> "array"]]>>,
       required |-> {<<"x">>, <<"y">>}] }

\* The tools one server may expose, by name.
ToolsByName ==
    UNION {[names -> {[input_schema |-> s] : s \in InputSchemas}] : names \in SUBSET ToolNames}

\* Methods a caller may hand to the translation, and the variable lists of
\* the templates.
Methods == {"GET", "POST", "PUT"}
PathVariableLists == {extract_path_variables(t) : t \in Templates}

InitConvert ==
    /\ ConfigIdle
    /\ RouterIdle
    /\ EngineIdle
    /\ PoolIdle
    /\ OtherIdle
    /\ ConvertIdle
    /\ RegistryIdle
    /\ DispatchIdle

\* One call _convert_mcp_tools_to_functions(tools, mcp_server_name,
\* response_mappings, logger).
Convert(tools, mappings) ==
    /\ ~converted.done
    /\ ~translated.done
    /\ converted' = [done |-> TRUE, tools |-> tools, mcp_server_name |-> ServerName(1),
                     response_mappings |-> mappings,
                     result |-> convert_mcp_tools_to_functions(tools, ServerName(1), mappings)]
    /\ UNCHANGED <<configVars, translated, registryVars, dispatchVars, routerVars, engineVars, poolVars, otherVars>>

\* One call _convert_input_schema_to_parameters(input_schema, method,
\* path_variables).
Translate(input_schema, method, path_variables) ==
    /\ ~converted.done
    /\ ~translated.done
    /\ translated' = [done |-> TRUE, input_schema |-> input_schema, method |-> method,
                      path_variables |-> path_variables,
                      result |-> convert_input_schema_to_parameters(
                                     input_schema, method, path_variables)]
    /\ UNCHANGED <<configVars, converted, registryVars, dispatchVars, routerVars, engineVars, poolVars, otherVars>>

NextConvert ==
    \/ \E tools \in ToolsByName, mappings \in DistinctSeqs(Templates, MaxMappings) :
           Convert(tools, mappings)
    \/ \E input_schema \in InputSchemas, method \in Methods,
          path_variables \in PathVariableLists :
           Translate(input_schema, method, path_variables)

SpecConvert == InitConvert /\ [][NextConvert]_vars

\* ------------------------------------------------------------------------
\* Specification of the per-endpoint initialization
\* ------------------------------------------------------------------------
Endpoints == {"A", "B"}

\* ttl of the memoized steps, in seconds; the clock advances by half of it.
TTL == 1800
TickStep == TTL \div 2

\* Mapping tables and tools of the endpoints' servers.
RegistryTemplates ==
    { <<"/", "a">>, <<"/", "a", "/", "b">>, <<"/", "a", "/", "{", "x", "}">> }
RegistryTools == {<<"a">>}

\* Server lists of at most n servers over the named tools.
ServerListsUpTo(names, n) ==
    {[i \in 1..Len(ts) |-> [name |-> ServerName(i), tools |-> ts[i]]] :
        ts \in SeqsBetween(SUBSET names, 0, n)}

\* One binding per server, in server order; a client is made for one
\* endpoint and one server.
ClientsFor(endpoint_id, servers) ==
    [i \in 1..Len(servers) |->
        [name |-> servers[i].name, client |-> endpoint_id \o "/" \o servers[i].name,
         tools |-> servers[i].tools]]

\* Where a first initialization can raise: nowhere, in the server lookup, or
\* for one server in the discovery of its tools or in their conversion.
NoFailure == [step |-> "none", server |-> 0]
Failures(servers) ==
    {NoFailure, [step |-> "lookup", server |-> 0]}
    \cup {[step |-> s, server |-> k] : s \in {"discovery", "conversion"}, k \in 1..Len(servers)}

\* The servers whose loop body has run to its end when the call returns or
\* raises.
ServersDone(servers, failure) ==
    IF failure.step = "none" THEN servers
    ELSE IF failure.step = "lookup" THEN <<>>
    ELSE SubSeq(servers, 1, failure.server - 1)

\* Variant: no endpoint is ever taken as initialized.
is_never_cached(endpoint_id, data) == FALSE

\* The endpoint has an entry in _endpoint_data.
is_cached(endpoint_id, data) == endpoint_id \in DOMAIN data

\* Variant: the entry is written whether or not the call raised.
cache_entry_always(data, endpoint_id, failure, entry) == (endpoint_id :> entry) @@ data

\* _endpoint_data once the call is over: the entry is written by the last
\* statement, which an exception does not reach.
cache_entry(data, endpoint_id, failure, entry) ==
    IF failure.step = "none" THEN (endpoint_id :> entry) @@ data ELSE data

\* What the platform lists per endpoint: any list for A, at most one server
\* for B.
RemoteAnswers ==
    {[e \in Endpoints |-> IF e = "A" THEN a ELSE b] :
        a \in ServerListsUpTo(RegistryTools, MaxServers),
        b \in ServerListsUpTo(RegistryTools, 1)}

InitRegistry ==
    /\ response_mappings \in DistinctSeqs(RegistryTemplates, MaxMappings)
    /\ mcp_servers = <<>>
    /\ functions = <<>>
    /\ mcp_http_clients = <<>>
    /\ enable_concurrent_requests = Undefined
    /\ endpoint_data = <<>>
    /\ built_at = <<>>
    /\ remote \in RemoteAnswers
    /\ now = 0
    /\ init_call = NoInit
    /\ RouterIdle
    /\ EngineIdle
    /\ PoolIdle
    /\ OtherIdle
    /\ ConvertIdle
    /\ DispatchIdle

\* Config.initialize_for_endpoint(logger, endpoint_id); failure is where the
\* call raises when it has to build the state.
initialize_for_endpoint(endpoint_id, failure) ==
    IF is_cached(endpoint_id, endpoint_data)
    THEN /\ failure = NoFailure
         /\ mcp_servers' = endpoint_data[endpoint_id].mcp_servers
         /\ mcp_http_clients' = endpoint_data[endpoint_id].mcp_http_clients
         /\ functions' = endpoint_data[endpoint_id].functions
         /\ init_call' = [endpoint |-> endpoint_id, outcome |-> "returned",
                          failed |-> "none", at |-> now, cached |-> TRUE,
                          lookups |-> 0, discoveries |-> 0, clients |-> 0]
         /\ UNCHANGED <<response_mappings, enable_concurrent_requests, endpoint_data,
                        built_at, remote, now>>
    ELSE LET servers == IF failure.step = "lookup" THEN <<>> ELSE remote[endpoint_id]
             done == ServersDone(remote[endpoint_id], failure)
         IN  /\ failure \in Failures(remote[endpoint_id])
             /\ mcp_servers' = servers
             /\ functions' = FunctionsFrom(done, response_mappings, 1)
             /\ mcp_http_clients' = ClientsFor(endpoint_id, done)
             /\ endpoint_data' = cache_entry(endpoint_data, endpoint_id, failure,
                                             [mcp_servers |-> mcp_servers',
                                              mcp_http_clients |-> mcp_http_clients',
                                              functions |-> functions'])
             /\ built_at' = IF failure.step = "none"
                            THEN (endpoint_id :> now) @@ built_at ELSE built_at
             /\ init_call' = [endpoint |-> endpoint_id,
                              outcome |-> IF failure.step = "none" THEN "returned"
                                          ELSE "raised",
                              failed |-> failure.step, at |-> now, cached |-> FALSE,
                              lookups |-> 1,
                              discoveries |-> IF failure.step = "none" THEN Len(servers)
                                              ELSE failure.server,
                              clients |-> Len(done)]
             /\ UNCHANGED <<response_mappings, enable_concurrent_requests, remote, now>>

\* A caller invokes Config.initialize_for_endpoint(logger, endpoint_id) on
\* its own.
InitializeForEndpoint(endpoint_id, failure) ==
    /\ initialize_for_endpoint(endpoint_id, failure)
    /\ UNCHANGED <<convertVars, dispatchVars, routerVars, engineVars, poolVars, otherVars>>

\* Time passes.
Tick ==
    /\ now < MaxTicks * TickStep
    /\ now' = now + TickStep
    /\ UNCHANGED <<configVars, endpoint_data, built_at, remote, init_call, convertVars,
                   dispatchVars, routerVars, engineVars, poolVars, otherVars>>

NextRegistry ==
    \/ \E endpoint_id \in Endpoints :
           \E failure \in Failures(remote[endpoint_id]) :
               InitializeForEndpoint(endpoint_id, failure)
    \/ Tick

SpecRegistry == InitRegistry /\ [][NextRegistry]_vars

\* ------------------------------------------------------------------------
\* Specification of the execution engine
\* ------------------------------------------------------------------------
InitEngine ==
    /\ InitConfig({<<>>}, ServerListsOver(CallNames))
    /\ RouterIdle
    /\ tool_calls = <<>>
    /\ batch = NoBatch
    /\ tasks = <<>>
    /\ ef = NoCall
    /\ sessions = [c \in {mcp_http_clients[k].client : k \in 1..Len(mcp_http_clients)} |-> 0]
    /\ log = [opened |-> 0, called |-> [fn \in CallNames |-> 0]]
    /\ PoolIdle
    /\ OtherIdle
    /\ ConvertIdle
    /\ RegistryIdle
    /\ DispatchIdle

\* Variant: the last binding that serves the function is taken.
StartCallLastBinding(clients, fn) ==
    LET serving == {k \in 1..Len(clients) : fn \in clients[k].tools}
        last == CHOOSE k \in serving : \A j \in serving : j <= k
    IN  IF serving # {}
        THEN [pc |-> "created", function_name |-> fn, client |-> clients[last].client,
              raw |-> Nothing, outcome |-> Nothing]
        ELSE [pc |-> "done", function_name |-> fn, client |-> None,
              raw |-> Nothing, outcome |-> Raised("NotSupported", fn)]

\* execute_function up to the call of _execute_mcp_tool: the client lookup,
\* and the "is not supported" exception when no binding serves the function.
StartCall(clients, fn) ==
    LET k == FindClient(clients, fn)
    IN  IF k # 0
        THEN [pc |-> "created", function_name |-> fn, client |-> clients[k].client,
              raw |-> Nothing, outcome |-> Nothing]
        ELSE [pc |-> "done", function_name |-> fn, client |-> None,
              raw |-> Nothing, outcome |-> Raised("NotSupported", fn)]

\* A caller invokes execute_function(logger, fn) on its own.
ExecuteFunction(fn) ==
    /\ batch.pc = "idle"
    /\ ef.pc = "idle"
    /\ batch' = [batch EXCEPT !.pc = "single"]
    /\ ef' = StartCall(mcp_http_clients, fn)
    /\ UNCHANGED <<configVars, convertVars, registryVars, dispatchVars, routerVars, tool_calls, tasks, sessions, log, poolVars, otherVars>>

\* _run_call_mcp_http_tool: "async with mcp_http_client as client" is entered
\* and call_tool is issued, or entering the session fails.
EfEnter ==
    /\ ef.pc = "created"
    /\ \/ /\ sessions' = [sessions EXCEPT ![ef.client] = @ + 1]
          /\ log' = [log EXCEPT !.opened = @ + 1, !.called[ef.function_name] = @ + 1]
          /\ ef' = [ef EXCEPT !.pc = "calling"]
       \/ /\ ef' = [ef EXCEPT !.pc = "done",
                              !.outcome = Raised("ConnectError", ef.function_name)]
          /\ UNCHANGED <<sessions, log>>
    /\ UNCHANGED <<configVars, convertVars, registryVars, dispatchVars, routerVars, tool_calls, batch, tasks, poolVars, otherVars>>

\* client.call_tool returns a content list or raises.
EfToolReturns(r) ==
    /\ ef.pc = "calling"
    /\ ef' = [ef EXCEPT !.pc = "exiting", !.raw = r]
    /\ UNCHANGED <<configVars, convertVars, registryVars, dispatchVars, routerVars, tool_calls, batch, tasks, sessions, log, poolVars, otherVars>>

\* The async with block is left: the session is exited; an exception of the
\* tool call leaves execute_function through its except clause.
EfExit ==
    /\ ef.pc = "exiting"
    /\ sessions' = aexit(sessions, ef.client)
    /\ ef' = IF ef.raw.kind = "exception"
             THEN [ef EXCEPT !.pc = "done", !.outcome = ef.raw]
             ELSE [ef EXCEPT !.pc = "extracting"]
    /\ UNCHANGED <<configVars, convertVars, registryVars, dispatchVars, routerVars, tool_calls, batch, tasks, log, poolVars, otherVars>>

\* return result[0]["text"]
EfExtract ==
    /\ ef.pc = "extracting"
    /\ ef' = [ef EXCEPT !.pc = "done", !.outcome = ExtractText(ef.raw, ef.function_name)]
    /\ UNCHANGED <<configVars, convertVars, registryVars, dispatchVars, routerVars, tool_calls, batch, tasks, sessions, log, poolVars, otherVars>>

\* A caller invokes execute_concurrent_functions(logger, calls): the flag is
\* read (AttributeError when the class has no such attribute); sequential
\* mode starts its comprehension, concurrent mode builds the coroutines and
\* hands them to asyncio.gather.
BatchStart(calls) ==
    /\ batch.pc = "idle"
    /\ ef.pc = "idle"
    /\ tool_calls' = calls
    /\ IF enable_concurrent_requests = Undefined
       THEN /\ batch' = [batch EXCEPT !.pc = "raised",
                                      !.error = Raised("AttributeError", <<>>)]
            /\ tasks' = tasks
       ELSE IF enable_concurrent_requests = "False"
       THEN /\ batch' = [batch EXCEPT !.pc = "running", !.mode = "sequential", !.i = 1]
            /\ tasks' = tasks
       ELSE /\ batch' = [batch EXCEPT !.pc = "gathering", !.mode = "concurrent"]
            /\ tasks' = BuildTasks(mcp_http_clients, calls, 1)
    /\ UNCHANGED <<configVars, convertVars, registryVars, dispatchVars, routerVars, ef, sessions, log, poolVars, otherVars>>

\* Sequential mode: the comprehension takes the next call, or is finished
\* and the list is returned.
SeqStep ==
    /\ batch.mode = "sequential"
    /\ batch.pc = "running"
    /\ ef.pc = "idle"
    /\ IF batch.i > Len(tool_calls)
       THEN /\ batch' = [batch EXCEPT !.pc = "returned"]
            /\ ef' = ef
       ELSE /\ batch' = [batch EXCEPT !.started = Append(@, batch.i)]
            /\ ef' = StartCall(mcp_http_clients, tool_calls[batch.i])
    /\ UNCHANGED <<configVars, convertVars, registryVars, dispatchVars, routerVars, tool_calls, tasks, sessions, log, poolVars, otherVars>>

\* Sequential mode: execute_function has returned or raised.
SeqCollect ==
    /\ batch.mode = "sequential"
    /\ batch.pc = "running"
    /\ ef.pc = "done"
    /\ batch' = Collect(batch, ef.outcome)
    /\ ef' = NoCall
    /\ UNCHANGED <<configVars, convertVars, registryVars, dispatchVars, routerVars, tool_calls, tasks, sessions, log, poolVars, otherVars>>

\* _run_call_mcp_tool_async of task j: the session is entered and call_tool
\* issued, or entering fails and the exception leaves the coroutine.
TaskEnter(j) ==
    /\ batch.pc = "gathering"
    /\ tasks[j].pc = "created"
    /\ \/ /\ sessions' = [sessions EXCEPT ![tasks[j].client] = @ + 1]
          /\ log' = [log EXCEPT !.opened = @ + 1,
                                !.called[tasks[j].function_name] = @ + 1]
          /\ tasks' = [tasks EXCEPT ![j].pc = "calling"]
       \/ /\ tasks' = [tasks EXCEPT ![j].pc = "done",
                         ![j].outcome = Raised("ConnectError", tasks[j].function_name)]
          /\ UNCHANGED <<sessions, log>>
    /\ UNCHANGED <<configVars, convertVars, registryVars, dispatchVars, routerVars, tool_calls, batch, ef, poolVars, otherVars>>

\* call_tool of task j returns or raises.
TaskToolReturns(j, r) ==
    /\ batch.pc = "gathering"
    /\ tasks[j].pc = "calling"
    /\ tasks' = [tasks EXCEPT ![j].pc = "exiting", ![j].raw = r]
    /\ UNCHANGED <<configVars, convertVars, registryVars, dispatchVars, routerVars, tool_calls, batch, ef, sessions, log, poolVars, otherVars>>

\* Task j leaves its async with block: the session is exited and the
\* coroutine ends with the tool's result or re-raises its exception.
TaskExit(j) ==
    /\ batch.pc = "gathering"
    /\ tasks[j].pc = "exiting"
    /\ sessions' = aexit(sessions, tasks[j].client)
    /\ tasks' = [tasks EXCEPT ![j].pc = "done", ![j].outcome = tasks[j].raw]
    /\ UNCHANGED <<configVars, convertVars, registryVars, dispatchVars, routerVars, tool_calls, batch, ef, log, poolVars, otherVars>>

\* Every coroutine has ended: gather returns and so does the batch.
GatherReturn ==
    /\ batch.pc = "gathering"
    /\ \A j \in 1..Len(tasks) : tasks[j].pc = "done"
    /\ batch' = [batch EXCEPT !.pc = gather(tasks).pc,
                              !.results = gather(tasks).results,
                              !.error = gather(tasks).error]
    /\ UNCHANGED <<configVars, convertVars, registryVars, dispatchVars, routerVars, tool_calls, tasks, ef, sessions, log, poolVars, otherVars>>

NextEngine ==
    \/ \E fn \in CallNames : ExecuteFunction(fn)
    \/ EfEnter
    \/ \E r \in ToolOutcomes(ef.function_name) : EfToolReturns(r)
    \/ EfExit
    \/ EfExtract
    \/ \E calls \in SeqsBetween(CallNames, 0, MaxCalls) : BatchStart(calls)
    \/ SeqStep
    \/ SeqCollect
    \/ \E j \in 1..Len(tasks) : TaskEnter(j)
    \/ \E j \in 1..Len(tasks) : \E r \in ToolOutcomes(tasks[j].function_name) :
            TaskToolReturns(j, r)
    \/ \E j \in 1..Len(tasks) : TaskExit(j)
    \/ GatherReturn

SpecEngine == InitEngine /\ [][NextEngine]_vars

\* ------------------------------------------------------------------------
\* Transport pool: values and pure steps
\* ------------------------------------------------------------------------
DefaultMaxRetries == 3

\* Status codes a server may answer with, and the protocol versions.
Statuses == {200, 404, 429, 503}
HttpVersions == {"HTTP/2", "HTTP/1.1"}

\* Exceptions as the retry loop sees them; NoException is last_exception = None.
NoException == [type |-> "None", status |-> 0]
HTTPStatusError(status) == [type |-> "HTTPStatusError", status |-> status]
RequestError == [type |-> "RequestError", status |-> 0]
TimeoutException == [type |-> "TimeoutException", status |-> 0]
OtherError == [type |-> "OtherError", status |-> 0]
TypeError == [type |-> "TypeError", status |-> 0]

\* What one await self.client.request(...) may produce: a response, an
\* httpx.RequestError, an httpx.TimeoutException (a RequestError), or an
\* exception of neither class.
SendOutcomes ==
    {[kind |-> "response", status |-> st, http_version |-> v] :
        st \in Statuses, v \in HttpVersions}
    \cup {[kind |-> k, status |-> 0, http_version |-> ""] :
        k \in {"RequestError", "TimeoutException", "OtherError"}}

\* response.raise_for_status(): the HTTPStatusError of a non-2xx response.
IsSuccess(status) == 200 <= status /\ status < 300

\* Variant: server errors instead of client errors end the loop.
IsFatalServerError(status) == 500 <= status /\ status < 600

\* if 400 <= e.response.status_code < 500 and e.response.status_code != 429: break
IsFatal(status) == 400 <= status /\ status < 500 /\ status # 429

\* Variant: the comparison is off by one.
AttemptsRemainOffByOne(attempt, limit) == attempt < limit

\* if attempt < self.max_retries - 1
AttemptsRemain(attempt, limit) == attempt < limit - 1

\* backoff_time = 2 ** attempt * 0.1, in tenths of a second
Backoff(attempt) == 2 ^ attempt

\* raise last_exception; raising None is a TypeError.
RaiseLast(last_exception) ==
    IF last_exception = NoException THEN TypeError ELSE last_exception

\* A call of _request_with_retry: where it stands, its loop variables, and
\* what it has done so far (sends issued, backoff waits taken, the failure
\* of the latest send).
NewRequest ==
    [pc |-> "idle", attempt |-> 0, last_exception |-> NoException,
     sends |-> 0, waits |-> <<>>, last_failure |-> NoException,
     result |-> 0, error |-> NoException]

\* The first lines of _request_with_retry.
MetricsAtStart(m) ==
    [m EXCEPT !.total_requests = @ + 1,
              !.concurrent_requests = @ + 1,
              !.max_concurrent_requests =
                  IF m.concurrent_requests + 1 > @ THEN m.concurrent_requests + 1 ELSE @]

\* Track HTTP version used
MetricsAtResponse(m, o) ==
    IF o.http_version = "HTTP/2"
    THEN [m EXCEPT !.http2_requests = @ + 1]
    ELSE [m EXCEPT !.http1_requests = @ + 1]

\* "http2_usage_percent" of get_metrics_summary:
\* round(http2_requests / total_requests * 100, 2), 0 when no call was made;
\* the value is held in hundredths of a percent, rounded to the nearest.
http2_usage_percent(m) ==
    IF m.total_requests > 0
    THEN (2 * m.http2_requests * 10000 + m.total_requests) \div (2 * m.total_requests)
    ELSE 0

\* Variant: a call that returns is not counted.
MetricsAtSuccessUncounted(m) == [m EXCEPT !.concurrent_requests = @ - 1]

\* Update metrics (success)
MetricsAtSuccess(m) ==
    [m EXCEPT !.successful_requests = @ + 1, !.concurrent_requests = @ - 1]

\* All retries failed
MetricsAtFailure(m) ==
    [m EXCEPT !.failed_requests = @ + 1, !.concurrent_requests = @ - 1]

\* The code after the loop: the call ends by raising.
Fail(q) == [q EXCEPT !.pc = "raised", !.error = RaiseLast(q.last_exception)]

\* The exception of a failed attempt, as the except clauses bind it.
ExceptionOf(o) ==
    IF o.kind = "response" THEN HTTPStatusError(o.status)
    ELSE IF o.kind = "RequestError" THEN RequestError
    ELSE IF o.kind = "TimeoutException" THEN TimeoutException
    ELSE OtherError

\* One pass of the loop body for request record q once client.request has
\* produced o, up to the next await or the end of the call.
AfterSend(q, o, limit) ==
    LET sent == [q EXCEPT !.sends = @ + 1] IN
    IF o.kind = "response" /\ IsSuccess(o.status)
    THEN [sent EXCEPT !.pc = "returned", !.result = o.status]
    ELSE IF o.kind = "OtherError"
    THEN [sent EXCEPT !.pc = "raised", !.error = OtherError,
                      !.last_failure = OtherError]
    ELSE LET failed == [sent EXCEPT !.last_exception = ExceptionOf(o),
                                    !.last_failure = ExceptionOf(o)]
         IN  IF o.kind = "response" /\ IsFatal(o.status)
             THEN Fail(failed)
             ELSE IF AttemptsRemain(q.attempt, limit)
             THEN [failed EXCEPT !.pc = "sleeping",
                                 !.waits = Append(@, Backoff(q.attempt))]
             ELSE Fail(failed)

\* The counters after that pass.
MetricsAfterSend(m, q, o, limit) ==
    LET seen == IF o.kind = "response" THEN MetricsAtResponse(m, o) ELSE m
        after == AfterSend(q, o, limit)
    IN  IF after.pc = "returned" THEN MetricsAtSuccess(seen)
        ELSE IF after.pc = "raised" /\ o.kind # "OtherError" THEN MetricsAtFailure(seen)
        ELSE seen

\* ------------------------------------------------------------------------
\* Specification of the dispatch of requests
\* ------------------------------------------------------------------------
\* Variant: the whole of s is sub.
IsSub(s, sub) == s = sub

\* s has sub as a substring ("sub in s").
ContainsSub(s, sub) ==
    \E i \in 1..(Len(s) - Len(sub) + 1) : SubSeq(s, i, i + Len(sub) - 1) = sub

OpenApiMarker == <<"o", "p", "e", "n", "a", "p", "i", ".", "y", "a", "m", "l">>

\* The path argument of a request; the empty one stands for a request
\* without any.
DispatchPaths ==
    { <<>>, <<"a">>, <<"a", "/", "b">>, <<"b">>, OpenApiMarker,
      <<"a", "/">> \o OpenApiMarker }

\* Variant: no path is taken as missing.
path_is_never_missing(p) == FALSE

\* if not path or path == "/": the path already has its leading "/".
path_is_missing(p) == p = <<>> \/ p = <<"/">>

\* Every client an endpoint may be given.
AllClients == {e \o "/" \o ServerName(i) : e \in Endpoints, i \in 1..MaxServers}

\* The document generate_swagger_yaml returns: an operation per function.
generate_swagger_yaml(fs) ==
    [k \in 1..Len(fs) |->
        [path |-> fs[k].path, method |-> fs[k].method, operationId |-> fs[k].function_name]]

InitDispatch ==
    /\ response_mappings \in DistinctSeqs(RegistryTemplates, MaxMappings)
    /\ mcp_servers = <<>>
    /\ functions = <<>>
    /\ mcp_http_clients = <<>>
    /\ enable_concurrent_requests = Undefined
    /\ endpoint_data = <<>>
    /\ built_at = <<>>
    /\ remote \in RemoteAnswers
    /\ now = 0
    /\ init_call = NoInit
    /\ dispatch = NoDispatch
    /\ RouterIdle
    /\ tool_calls = <<>>
    /\ batch = NoBatch
    /\ tasks = <<>>
    /\ ef = NoCall
    /\ sessions = [c \in AllClients |-> 0]
    /\ log = [opened |-> 0, called |-> [fn \in RegistryTools |-> 0]]
    /\ PoolIdle
    /\ OtherIdle
    /\ ConvertIdle

\* mcp_proxy_dispatch(endpoint_id=..., path=p) up to the call of the tool:
\* the endpoint is initialized, the path is checked, the description is
\* returned for the marker, otherwise the router is asked and
\* execute_function looks for the client. The router is handed endpoint_id
\* where it expects its logger, so its except clause raises AttributeError.
\* log counts what this request sends to the clients.
Dispatch(endpoint_id, p, failure) ==
    /\ dispatch.pc \in {"idle", "done"}
    /\ initialize_for_endpoint(endpoint_id, failure)
    /\ path' = <<"/">> \o p
    /\ log' = [opened |-> 0, called |-> [fn \in RegistryTools |-> 0]]
    /\ IF init_call'.outcome = "raised"
       THEN /\ dispatch' = [pc |-> "done", endpoint |-> endpoint_id,
                            outcome |-> Raised("InitializationError", <<>>)]
            /\ route' = NoRoute
            /\ ef' = NoCall
       ELSE IF path_is_missing(path')
       THEN /\ dispatch' = [pc |-> "done", endpoint |-> endpoint_id,
                            outcome |-> Raised("PathRequired", <<>>)]
            /\ route' = NoRoute
            /\ ef' = NoCall
       ELSE IF ContainsSub(path', OpenApiMarker)
       THEN /\ dispatch' = [pc |-> "done", endpoint |-> endpoint_id,
                            outcome |-> Returned(generate_swagger_yaml(functions'))]
            /\ route' = NoRoute
            /\ ef' = NoCall
       ELSE /\ route' = get_function_name_and_path_parameters(functions', path')
            /\ IF route'.kind = "error"
               THEN /\ dispatch' = [pc |-> "done", endpoint |-> endpoint_id,
                                    outcome |-> Raised("AttributeError", <<>>)]
                    /\ ef' = NoCall
               ELSE /\ dispatch' = [pc |-> "executing", endpoint |-> endpoint_id,
                                    outcome |-> Nothing]
                    /\ ef' = StartCall(mcp_http_clients', route'.function_name)
    /\ UNCHANGED <<convertVars, tool_calls, batch, tasks, sessions, poolVars, otherVars>>

\* execute_function is over: what it returned or raised is what the request
\* returns or raises.
DispatchReturn ==
    /\ dispatch.pc = "executing"
    /\ ef.pc = "done"
    /\ dispatch' = [dispatch EXCEPT !.pc = "done", !.outcome = ef.outcome]
    /\ ef' = NoCall
    /\ UNCHANGED <<configVars, convertVars, registryVars, routerVars, tool_calls, batch,
                   tasks, sessions, log, poolVars, otherVars>>

NextDispatch ==
    \/ \E endpoint_id \in Endpoints, p \in DispatchPaths :
           \E failure \in Failures(remote[endpoint_id]) :
               Dispatch(endpoint_id, p, failure)
    \/ EfEnter
    \/ \E r \in ToolOutcomes(ef.function_name) : EfToolReturns(r)
    \/ EfExit
    \/ EfExtract
    \/ DispatchReturn

SpecDispatch == InitDispatch /\ [][NextDispatch]_vars

\* ------------------------------------------------------------------------
\* Specification of the transport pool
\* ------------------------------------------------------------------------
InitPool ==
    /\ InitConfig({<<>>}, {<<>>})
    /\ enable_concurrent_requests = Undefined
    /\ RouterIdle
    /\ EngineIdle
    /\ ConvertIdle
    /\ RegistryIdle
    /\ DispatchIdle
    /\ OtherIdle
    /\ max_retries \in 0..MaxRetriesBound
    /\ metrics = [total_requests |-> 0, successful_requests |-> 0,
                  failed_requests |-> 0, http2_requests |-> 0,
                  http1_requests |-> 0, concurrent_requests |-> 0,
                  max_concurrent_requests |-> 0]
    /\ requests = [r \in 1..MaxRequests |-> NewRequest]

\* A caller awaits _request_with_retry: the counters are updated and the
\* first send is issued; with no attempt allowed the loop body never runs
\* and the code after the loop raises.  Calls are numbered in the order
\* they start.
Request(r) ==
    /\ requests[r].pc = "idle"
    /\ IF r = 1 THEN TRUE ELSE requests[r - 1].pc # "idle"
    /\ IF max_retries > 0
       THEN /\ requests' = [requests EXCEPT ![r].pc = "sending"]
            /\ metrics' = MetricsAtStart(metrics)
       ELSE /\ requests' = [requests EXCEPT ![r] = Fail(@)]
            /\ metrics' = MetricsAtFailure(MetricsAtStart(metrics))
    /\ UNCHANGED <<configVars, convertVars, registryVars, dispatchVars, routerVars, engineVars, otherVars, max_retries>>

\* await self.client.request(...) of request r completes with outcome o.
Respond(r, o) ==
    /\ requests[r].pc = "sending"
    /\ requests' = [requests EXCEPT ![r] = AfterSend(@, o, max_retries)]
    /\ metrics' = MetricsAfterSend(metrics, requests[r], o, max_retries)
    /\ UNCHANGED <<configVars, convertVars, registryVars, dispatchVars, routerVars, engineVars, otherVars, max_retries>>

\* await asyncio.sleep(backoff_time) of request r completes: next attempt.
Wake(r) ==
    /\ requests[r].pc = "sleeping"
    /\ requests' = [requests EXCEPT ![r].pc = "sending", ![r].attempt = @ + 1]
    /\ UNCHANGED <<configVars, convertVars, registryVars, dispatchVars, routerVars, engineVars, otherVars, max_retries, metrics>>

NextPool ==
    \/ \E r \in 1..MaxRequests : Request(r)
    \/ \E r \in 1..MaxRequests : \E o \in SendOutcomes : Respond(r, o)
    \/ \E r \in 1..MaxRequests : Wake(r)

SpecPool == InitPool /\ [][NextPool]_vars

\* ------------------------------------------------------------------------
\* Specification of the memoized steps
\* ------------------------------------------------------------------------
\* A dict is the sequence of its items in insertion order, a list the
\* sequence of its elements.
RECURSIVE JoinFrom(_, _)
JoinFrom(parts, i) ==
    IF i > Len(parts) THEN ""
    ELSE IF i = Len(parts) THEN parts[i]
    ELSE parts[i] \o ", " \o JoinFrom(parts, i + 1)

\* The characters of s as one string.
RECURSIVE Str(_)
Str(s) == IF s = <<>> THEN "" ELSE s[1] \o Str(Tail(s))

\* json.dumps(d): the items are written in the order the dict holds them.
json_dumps(d) ==
    LET item(i) == "\"" \o d[i].key \o "\": \"" \o d[i].value \o "\""
    IN  "{" \o JoinFrom([i \in 1..Len(d) |-> item(i)], 1) \o "}"

\* pickle.dumps(tools): the elements are written in list order.
pickle_dumps(tools) == "[" \o JoinFrom([i \in 1..Len(tools) |-> Str(tools[i])], 1) \o "]"

\* The dict Config.response_mappings with the keys of mappings.
MappingsDict(mappings) ==
    [i \in 1..Len(mappings) |-> [key |-> Str(mappings[i]), value |-> "r"]]

\* Arguments the steps are called with.
HeaderDicts ==
    DistinctSeqs({[key |-> "h1", value |-> "v"], [key |-> "h2", value |-> "v"]}, 2)
\* Config.internal_mcp: not set, or a base URL with headers.
NoInternalMcp == [configured |-> FALSE, base_url |-> "", headers |-> <<>>]
InternalMcps ==
    {NoInternalMcp}
    \cup {[configured |-> TRUE, base_url |-> "u0", headers |-> h] : h \in HeaderDicts}
MemoServers == {[name |-> "s1", base_url |-> "u1", headers |-> h] : h \in HeaderDicts}
MemoToolLists == DistinctSeqs(CallNames, 2)
MemoMappings == DistinctSeqs({<<"/", "a">>, <<"/", "b">>}, MaxMappings)

\* method_cache around a step: the cache holds a value under the key made
\* of the arguments of the call.
Hit(step, key) == \E c \in method_cache : c.step = step /\ c.key = key

\* The cache after the call: without a value under the key the step runs
\* and its value is stored; args is what the value was computed from.
Stored(step, key, args) ==
    IF Hit(step, key) THEN method_cache
    ELSE method_cache \cup {[step |-> step, key |-> key, args |-> args]}

\* Config.get_mcp_servers_for_endpoint called as initialize_for_endpoint
\* calls it.
GetMcpServersForEndpoint(endpoint_id, internal_mcp) ==
    LET internal_mcp_base_url ==
            IF internal_mcp.configured THEN internal_mcp.base_url ELSE ""
        internal_mcp_headers_json ==
            IF internal_mcp.configured THEN json_dumps(internal_mcp.headers) ELSE "{}"
        step == "get_mcp_servers_for_endpoint"
        key == <<endpoint_id, internal_mcp_base_url, internal_mcp_headers_json>>
    IN  /\ Hit(step, key) \/ Cardinality(method_cache) < MaxEntries
        /\ method_cache' = Stored(step, key, [endpoint_id |-> endpoint_id,
                                              internal_mcp |-> internal_mcp])
        /\ memo_call' = [step |-> step, key |-> key, hit |-> Hit(step, key)]
        /\ UNCHANGED <<configVars, convertVars, registryVars, dispatchVars, routerVars,
                       engineVars, poolVars, manager, threadVars>>

\* Config.get_mcp_tools called as initialize_for_endpoint calls it.
GetMcpTools(mcp_server) ==
    LET headers_json == json_dumps(mcp_server.headers)
        step == "get_mcp_tools"
        key == <<mcp_server.name, mcp_server.base_url, headers_json>>
    IN  /\ Hit(step, key) \/ Cardinality(method_cache) < MaxEntries
        /\ method_cache' = Stored(step, key, [mcp_server |-> mcp_server])
        /\ memo_call' = [step |-> step, key |-> key, hit |-> Hit(step, key)]
        /\ UNCHANGED <<configVars, convertVars, registryVars, dispatchVars, routerVars,
                       engineVars, poolVars, manager, threadVars>>

\* Config.convert_tools_to_functions called as initialize_for_endpoint calls
\* it.
ConvertToolsToFunctions(tools, server_name, mappings) ==
    LET response_mappings_json == json_dumps(MappingsDict(mappings))
        tools_pickle == pickle_dumps(tools)
        step == "convert_tools_to_functions"
        key == <<tools_pickle, server_name, response_mappings_json>>
    IN  /\ Hit(step, key) \/ Cardinality(method_cache) < MaxEntries
        /\ method_cache' = Stored(step, key, [tools |-> tools, server_name |-> server_name,
                                              mappings |-> mappings])
        /\ memo_call' = [step |-> step, key |-> key, hit |-> Hit(step, key)]
        /\ UNCHANGED <<configVars, convertVars, registryVars, dispatchVars, routerVars,
                       engineVars, poolVars, manager, threadVars>>

InitMemo ==
    /\ InitConfig({<<>>}, {<<>>})
    /\ enable_concurrent_requests = Undefined
    /\ RouterIdle
    /\ EngineIdle
    /\ ConvertIdle
    /\ RegistryIdle
    /\ DispatchIdle
    /\ PoolIdle
    /\ ManagerIdle
    /\ ThreadsIdle
    /\ method_cache = {}
    /\ memo_call = NoMemoCall

NextMemo ==
    \/ \E endpoint_id \in Endpoints, internal_mcp \in InternalMcps :
           GetMcpServersForEndpoint(endpoint_id, internal_mcp)
    \/ \E mcp_server \in MemoServers : GetMcpTools(mcp_server)
    \/ \E tools \in MemoToolLists, mappings \in MemoMappings :
           ConvertToolsToFunctions(tools, "s1", mappings)

SpecMemo == InitMemo /\ [][NextMemo]_vars

\* ------------------------------------------------------------------------
\* Specification of requests dispatched by several threads
\* ------------------------------------------------------------------------
\* Config is one class for the process: every thread that runs
\* mcp_proxy_dispatch reads and writes the same attributes.  A step is one
\* statement, or a group of adjacent ones, of mcp_proxy_dispatch and of the
\* initialize_for_endpoint it calls; another thread may run between two
\* steps.  The remote calls succeed.
ThreadPaths == {<<"a">>, <<"a", "/", "b">>}

\* What the platform lists per endpoint: servers that expose the tool.
ThreadRemotes ==
    {r \in RemoteAnswers :
        \A e \in Endpoints : \A i \in 1..Len(r[e]) : r[e][i].tools = RegistryTools}

NewThread(endpoint_id, p) ==
    [endpoint |-> endpoint_id, path |-> <<"/">> \o p, pc |-> "start",
     built |-> FALSE, servers |-> <<>>, i |-> 0, route |-> NoRoute, client |-> None]

\* The entry initialize_for_endpoint writes from the lists Config holds.
Entry(servers, clients, fs) ==
    [mcp_servers |-> servers, mcp_http_clients |-> clients, functions |-> fs]

InitThreads ==
    /\ response_mappings \in DistinctSeqs(RegistryTemplates, 1)
    /\ mcp_servers = <<>>
    /\ functions = <<>>
    /\ mcp_http_clients = <<>>
    /\ enable_concurrent_requests = Undefined
    /\ endpoint_data = <<>>
    /\ built_at = <<>>
    /\ remote \in ThreadRemotes
    /\ now = 0
    /\ init_call = NoInit
    /\ RouterIdle
    /\ EngineIdle
    /\ PoolIdle
    /\ ConvertIdle
    /\ DispatchIdle
    /\ MemoIdle
    /\ ManagerIdle
    /\ threads \in [1..MaxThreads -> {NewThread(e, p) : e \in Endpoints, p \in ThreadPaths}]
    /\ aliased = NoAlias

\* if endpoint_id in cls._endpoint_data: the three attributes are bound to
\* the cached lists themselves and the call returns; otherwise the state is
\* to be built.
TCheck(t) ==
    LET e == threads[t].endpoint IN
    /\ threads[t].pc = "start"
    /\ IF is_cached(e, endpoint_data)
       THEN /\ mcp_servers' = endpoint_data[e].mcp_servers
            /\ mcp_http_clients' = endpoint_data[e].mcp_http_clients
            /\ functions' = endpoint_data[e].functions
            /\ aliased' = [functions |-> e, mcp_http_clients |-> e]
            /\ threads' = [threads EXCEPT ![t].pc = "route"]
       ELSE /\ threads' = [threads EXCEPT ![t].pc = "clear", ![t].built = TRUE]
            /\ UNCHANGED <<mcp_servers, mcp_http_clients, functions, aliased>>
    /\ UNCHANGED <<response_mappings, enable_concurrent_requests, registryVars, convertVars,
                   dispatchVars, routerVars, engineVars, poolVars, memoVars, manager>>

\* Variant: the build starts on the lists the attributes hold.
TClearKeepsLists(t) ==
    /\ threads[t].pc = "clear"
    /\ threads' = [threads EXCEPT ![t].pc = "lookup"]
    /\ UNCHANGED <<configVars, registryVars, convertVars, dispatchVars, routerVars,
                   engineVars, poolVars, memoVars, manager, aliased>>

\* Clear current state: the attributes are bound to new empty lists.
TClear(t) ==
    /\ threads[t].pc = "clear"
    /\ mcp_servers' = <<>>
    /\ mcp_http_clients' = <<>>
    /\ functions' = <<>>
    /\ aliased' = NoAlias
    /\ threads' = [threads EXCEPT ![t].pc = "lookup"]
    /\ UNCHANGED <<response_mappings, enable_concurrent_requests, registryVars, convertVars,
                   dispatchVars, routerVars, engineVars, poolVars, memoVars, manager>>

\* cls.mcp_servers = cls.get_mcp_servers_for_endpoint(...)
TLookup(t) ==
    /\ threads[t].pc = "lookup"
    /\ mcp_servers' = remote[threads[t].endpoint]
    /\ threads' = [threads EXCEPT ![t].pc = "loop"]
    /\ UNCHANGED <<response_mappings, functions, mcp_http_clients, enable_concurrent_requests,
                   registryVars, convertVars, dispatchVars, routerVars, engineVars, poolVars,
                   memoVars, manager, aliased>>

\* for mcp_server in cls.mcp_servers: the loop runs over the list the
\* attribute holds when the loop starts.
TLoop(t) ==
    /\ threads[t].pc = "loop"
    /\ threads' = [threads EXCEPT ![t].servers = mcp_servers, ![t].i = 1,
                                  ![t].pc = IF mcp_servers = <<>> THEN "write" ELSE "extend"]
    /\ UNCHANGED <<configVars, registryVars, convertVars, dispatchVars, routerVars,
                   engineVars, poolVars, memoVars, manager, aliased>>

\* The cached entries after a list was changed in place: an entry whose list
\* is the changed one changes with it.
InPlace(data, field, value) ==
    IF aliased[field] = None THEN data
    ELSE [data EXCEPT ![aliased[field]][field] = value]

\* The tools of the server are discovered and converted, then
\* cls.functions.extend(mcp_functions) changes the list the attribute holds.
TExtend(t) ==
    LET mcp_server == threads[t].servers[threads[t].i] IN
    /\ threads[t].pc = "extend"
    /\ functions' = functions \o FunctionsFrom(<<mcp_server>>, response_mappings, 1)
    /\ endpoint_data' = InPlace(endpoint_data, "functions", functions')
    /\ threads' = [threads EXCEPT ![t].pc = "append"]
    /\ UNCHANGED <<response_mappings, mcp_servers, mcp_http_clients,
                   enable_concurrent_requests, built_at, remote, now, init_call, convertVars,
                   dispatchVars, routerVars, engineVars, poolVars, memoVars, manager, aliased>>

\* The client of the server is made and cls.mcp_http_clients.append({...})
\* changes the list the attribute holds; then the next server.
TAppend(t) ==
    LET mcp_server == threads[t].servers[threads[t].i] IN
    /\ threads[t].pc = "append"
    /\ mcp_http_clients' = mcp_http_clients \o ClientsFor(threads[t].endpoint, <<mcp_server>>)
    /\ endpoint_data' = InPlace(endpoint_data, "mcp_http_clients", mcp_http_clients')
    /\ threads' = [threads EXCEPT ![t].i = @ + 1,
                                  ![t].pc = IF threads[t].i < Len(threads[t].servers)
                                            THEN "extend" ELSE "write"]
    /\ UNCHANGED <<response_mappings, mcp_servers, functions, enable_concurrent_requests,
                   built_at, remote, now, init_call, convertVars, dispatchVars, routerVars,
                   engineVars, poolVars, memoVars, manager, aliased>>

\* cls._endpoint_data[endpoint_id] = {copies of the three lists}: the entry
\* gets lists of its own, and the lists of the entry it replaces are cached
\* no more.
TWrite(t) ==
    LET e == threads[t].endpoint IN
    /\ threads[t].pc = "write"
    /\ endpoint_data' = (e :> Entry(mcp_servers, mcp_http_clients, functions)) @@ endpoint_data
    /\ aliased' = [f \in DOMAIN aliased |-> IF aliased[f] = e THEN None ELSE aliased[f]]
    /\ threads' = [threads EXCEPT ![t].pc = "route"]
    /\ UNCHANGED <<configVars, built_at, remote, now, init_call, convertVars, dispatchVars,
                   routerVars, engineVars, poolVars, memoVars, manager>>

\* The path is neither empty nor the marker: the router is asked, and reads
\* Config.functions.
TRoute(t) ==
    LET found == get_function_name_and_path_parameters(functions, threads[t].path) IN
    /\ threads[t].pc = "route"
    /\ threads' = [threads EXCEPT ![t].route = found,
                                  ![t].pc = IF found.kind = "found" THEN "bind" ELSE "done"]
    /\ UNCHANGED <<configVars, registryVars, convertVars, dispatchVars, routerVars,
                   engineVars, poolVars, memoVars, manager, aliased>>

\* execute_function looks for the client in Config.mcp_http_clients.
TBind(t) ==
    /\ threads[t].pc = "bind"
    /\ threads' = [threads EXCEPT
                       ![t].client = StartCall(mcp_http_clients,
                                               threads[t].route.function_name).client,
                       ![t].pc = "done"]
    /\ UNCHANGED <<configVars, registryVars, convertVars, dispatchVars, routerVars,
                   engineVars, poolVars, memoVars, manager, aliased>>

NextThreads ==
    \/ \E t \in 1..MaxThreads : TCheck(t)
    \/ \E t \in 1..MaxThreads : TClear(t)
    \/ \E t \in 1..MaxThreads : TLookup(t)
    \/ \E t \in 1..MaxThreads : TLoop(t)
    \/ \E t \in 1..MaxThreads : TExtend(t)
    \/ \E t \in 1..MaxThreads : TAppend(t)
    \/ \E t \in 1..MaxThreads : TWrite(t)
    \/ \E t \in 1..MaxThreads : TRoute(t)
    \/ \E t \in 1..MaxThreads : TBind(t)

SpecThreads == InitThreads /\ [][NextThreads]_vars

\* ------------------------------------------------------------------------
\* Requests one after another: a single caller, each request of which runs
\* to its end before the next one starts.  The steps are the statements of
\* initialize_for_endpoint above, so the lists the class attributes share
\* with the cache are followed from one request to the next.
\* ------------------------------------------------------------------------
InitCalls ==
    /\ response_mappings \in DistinctSeqs(RegistryTemplates, 1)
    /\ mcp_servers = <<>>
    /\ functions = <<>>
    /\ mcp_http_clients = <<>>
    /\ enable_concurrent_requests = Undefined
    /\ endpoint_data = <<>>
    /\ built_at = <<>>
    /\ remote \in RemoteAnswers
    /\ now = 0
    /\ init_call = NoInit
    /\ RouterIdle
    /\ EngineIdle
    /\ PoolIdle
    /\ ConvertIdle
    /\ DispatchIdle
    /\ MemoIdle
    /\ ManagerIdle
    /\ threads \in [1..1 -> {NewThread(e, p) : e \in Endpoints, p \in ThreadPaths}]
    /\ aliased = NoAlias

\* get_mcp_servers_for_endpoint, get_mcp_tools or convert_tools_to_functions
\* raises: nothing catches it, the request ends where it is.
TRaise(t) ==
    /\ threads[t].pc \in {"lookup", "extend"}
    /\ threads' = [threads EXCEPT ![t].pc = "raised"]
    /\ UNCHANGED <<configVars, registryVars, convertVars, dispatchVars, routerVars,
                   engineVars, poolVars, memoVars, manager, aliased>>

\* The request is over and the caller sends the next one.
NextCall(t, endpoint_id, p) ==
    /\ threads[t].pc \in {"done", "raised"}
    /\ threads' = [threads EXCEPT ![t] = NewThread(endpoint_id, p)]
    /\ UNCHANGED <<configVars, registryVars, convertVars, dispatchVars, routerVars,
                   engineVars, poolVars, memoVars, manager, aliased>>

NextCalls ==
    \/ TCheck(1)
    \/ TClear(1)
    \/ TLookup(1)
    \/ TRaise(1)
    \/ TLoop(1)
    \/ TExtend(1)
    \/ TAppend(1)
    \/ TWrite(1)
    \/ TRoute(1)
    \/ TBind(1)
    \/ \E e \in Endpoints : \E p \in ThreadPaths : NextCall(1, e, p)

SpecCalls == InitCalls /\ [][NextCalls]_vars

\* ------------------------------------------------------------------------
\* Specification of the manager of the pools
\* ------------------------------------------------------------------------
\* self.clients is a dict: the sequence of its items in insertion order.  A
\* pool is known by the number of its creation; pools says of each whether
\* it is open, closed, or was left by a close that raised.
BaseUrls == {"u1", "u2"}

NoCloseAll == [pc |-> "idle", k |-> 0, size |-> 0, attempted |-> {}, reported |-> {}]
NoGet == [base_url |-> None, pool |-> 0, known |-> FALSE, created |-> FALSE]

\* The position of base_url in the dict, 0 when it is no key.
RECURSIVE KeyIndex(_, _, _)
KeyIndex(d, base_url, i) ==
    IF i > Len(d) THEN 0
    ELSE IF d[i].base_url = base_url THEN i
    ELSE KeyIndex(d, base_url, i + 1)

InitManager ==
    /\ InitConfig({<<>>}, {<<>>})
    /\ enable_concurrent_requests = Undefined
    /\ RouterIdle
    /\ EngineIdle
    /\ ConvertIdle
    /\ RegistryIdle
    /\ DispatchIdle
    /\ PoolIdle
    /\ MemoIdle
    /\ ThreadsIdle
    /\ manager = [clients |-> <<>>, pools |-> <<>>, close_all |-> NoCloseAll, got |-> NoGet]

\* if base_url not in self.clients
create_needed(d, base_url) == KeyIndex(d, base_url, 1) = 0

\* self.clients after self.clients[base_url] = HTTP2ClientPool(...): a new
\* key goes to the end, a key the dict has keeps its place.
SetItem(d, base_url, pool) ==
    IF KeyIndex(d, base_url, 1) = 0
    THEN Append(d, [base_url |-> base_url, pool |-> pool])
    ELSE [d EXCEPT ![KeyIndex(d, base_url, 1)].pool = pool]

\* get_or_create_client(base_url): a plain method, so it runs to its end
\* whenever it is called, also while close_all waits for a close.
GetOrCreateClient(base_url) ==
    LET known == KeyIndex(manager.clients, base_url, 1) # 0
        create == create_needed(manager.clients, base_url)
        clients == IF create
                   THEN SetItem(manager.clients, base_url, Len(manager.pools) + 1)
                   ELSE manager.clients
    IN  /\ manager.close_all.pc \in {"idle", "awaiting", "done", "raised"}
        /\ create => Len(manager.pools) < MaxPools
        /\ manager' = [manager EXCEPT
               !.clients = clients,
               !.pools = IF create THEN Append(@, "open") ELSE @,
               !.got = [base_url |-> base_url,
                        pool |-> clients[KeyIndex(clients, base_url, 1)].pool,
                        known |-> known, created |-> create]]
        /\ UNCHANGED <<configVars, convertVars, registryVars, dispatchVars, routerVars,
                       engineVars, poolVars, memoVars, threadVars>>

\* The for statement of close_all asks the dict for item k: a dict whose
\* size changed since the loop began raises RuntimeError, which nothing in
\* close_all catches; after the last item self.clients.clear() runs.
NextItem(m, k) ==
    IF Len(m.clients) # m.close_all.size
    THEN [m EXCEPT !.close_all.pc = "raised"]
    ELSE IF k > Len(m.clients)
    THEN [m EXCEPT !.clients = <<>>, !.close_all.pc = "done"]
    ELSE [m EXCEPT !.close_all.pc = "awaiting", !.close_all.k = k]

\* close_all() is called: up to its first await client.close().
CloseAll ==
    /\ manager.close_all.pc \in {"idle", "done", "raised"}
    /\ manager' = NextItem([manager EXCEPT
                                !.close_all = [NoCloseAll EXCEPT
                                                   !.size = Len(manager.clients)]], 1)
    /\ UNCHANGED <<configVars, convertVars, registryVars, dispatchVars, routerVars,
                   engineVars, poolVars, memoVars, threadVars>>

\* await client.close() of item k is over: the pool is closed, or the close
\* raised an Exception, which is logged; then the next item.
CloseReturns(ok) ==
    LET k == manager.close_all.k
        item == manager.clients[k]
        after == [manager EXCEPT
                      !.pools[item.pool] = IF ok THEN "closed" ELSE "failed",
                      !.close_all.attempted = @ \cup {item.pool},
                      !.close_all.reported = IF ok THEN @ ELSE @ \cup {item.base_url}]
    IN  /\ manager.close_all.pc = "awaiting"
        /\ manager' = NextItem(after, k + 1)
        /\ UNCHANGED <<configVars, convertVars, registryVars, dispatchVars, routerVars,
                       engineVars, poolVars, memoVars, threadVars>>

NextManager ==
    \/ \E base_url \in BaseUrls : GetOrCreateClient(base_url)
    \/ CloseAll
    \/ \E ok \in BOOLEAN : CloseReturns(ok)

SpecManager == InitManager /\ [][NextManager]_vars

\* ------------------------------------------------------------------------
\* Properties of the execution engine (checked under SpecEngine)
\* ------------------------------------------------------------------------
\* Some binding of the tenant serves function fn.
Bound(fn) == \E k \in 1..Len(mcp_http_clients) : fn \in mcp_http_clients[k].tools

ConcurrentReturned == batch.mode = "concurrent" /\ batch.pc = "returned"

\* C1: when a concurrent batch has returned, the result list has one slot
\* per input call and slot i holds the outcome of the coroutine created for
\* input call i.
C1_SlotPerInputCall ==
    ConcurrentReturned =>
        /\ Len(batch.results) = Len(tool_calls)
        /\ \A i \in 1..Len(tool_calls) :
                /\ i <= Len(tasks)
                /\ tasks[i].call = i
                /\ batch.results[i] = tasks[i].outcome

\* C2: a concurrent batch never raises; it returns only when every launched
\* coroutine has run to its end; the slot of a coroutine whose tool call
\* returned holds that result, and the slot of a coroutine that failed holds
\* the exception of that very call.
C2_FailSoft ==
    batch.mode = "concurrent" =>
        /\ batch.pc # "raised"
        /\ batch.pc = "returned" =>
              /\ Len(batch.results) = Len(tasks)
              /\ \A j \in 1..Len(tasks) :
                    /\ tasks[j].pc = "done"
                    /\ tasks[j].raw.kind = "result" => batch.results[j] = tasks[j].raw
                    /\ tasks[j].raw.kind # "result" =>
                          /\ batch.results[j].kind = "exception"
                          /\ batch.results[j].value[1].function_name
                                = tool_calls[tasks[j].call]

\* A returned concurrent batch in which one call failed and a sibling
\* launched before or after it holds its result.
C2_Witness ==
    /\ ConcurrentReturned
    /\ \E j, k \in 1..Len(tasks) :
          /\ batch.results[j].kind = "exception"
          /\ batch.results[k].kind = "result"
          /\ Len(batch.results[k].value) > 0

\* C3: in concurrent mode an input call whose function no binding serves
\* gets no coroutine and its function is never invoked on any client, the
\* batch does not raise, and every input call whose function is served gets
\* its coroutine.
C3_UnboundSkipped ==
    batch.mode = "concurrent" =>
        /\ batch.pc # "raised"
        /\ \A i \in 1..Len(tool_calls) :
              IF Bound(tool_calls[i])
              THEN \E j \in 1..Len(tasks) :
                        tasks[j].call = i /\ tasks[j].function_name = tool_calls[i]
              ELSE /\ \A j \in 1..Len(tasks) : tasks[j].call # i
                   /\ log.called[tool_calls[i]] = 0

\* A returned concurrent batch with a skipped call followed by a launched
\* call that was invoked on its client.
C3_Witness ==
    /\ ConcurrentReturned
    /\ \E i, k \in 1..Len(tool_calls) :
          /\ i < k
          /\ ~Bound(tool_calls[i])
          /\ Bound(tool_calls[k])
          /\ log.called[tool_calls[k]] > 0

\* C4: in sequential mode the calls are started in input order, a call is
\* started only when every earlier one has returned a value, a failing call
\* makes the batch raise that call's exception with no later call started,
\* and a list is returned only when every call returned a value.
C4_SequentialFailFast ==
    batch.mode = "sequential" =>
        /\ \A n \in 1..Len(batch.started) : batch.started[n] = n
        /\ Len(batch.started) <= Len(tool_calls)
        /\ \A n \in 1..Len(batch.results) : batch.results[n].kind = "result"
        /\ log.opened <= Len(batch.started)
        /\ IF ef.pc # "idle" \/ batch.pc = "raised"
           THEN Len(batch.started) = Len(batch.results) + 1
           ELSE Len(batch.started) = Len(batch.results)
        /\ batch.pc = "raised" =>
              /\ batch.error.kind = "exception"
              /\ batch.error.value[1].function_name = tool_calls[Len(batch.started)]
        /\ batch.pc = "returned" => Len(batch.results) = Len(tool_calls)

\* A sequential batch that raised at a call that is neither the first nor
\* the last of the input.
C4_Witness ==
    /\ batch.mode = "sequential"
    /\ batch.pc = "raised"
    /\ Len(batch.results) >= 1
    /\ Len(batch.started) < Len(tool_calls)

C9_ScopedSession ==
    (ef.pc # "idle" /\ Bound(ef.function_name)) =>
        /\ ef.pc \in {"calling", "exiting"} =>
              /\ sessions[ef.client] = 1
              /\ \E k \in 1..Len(mcp_http_clients) :
                    /\ mcp_http_clients[k].client = ef.client
                    /\ ef.function_name \in mcp_http_clients[k].tools
        /\ ef.pc \in {"created", "extracting", "done"} =>
              \A c \in DOMAIN sessions : sessions[c] = 0
        /\ batch.pc = "single" =>
              /\ log.called[ef.function_name] <= 1
              /\ log.opened <= 1
              /\ (ef.pc = "done" /\ ef.outcome.kind = "result") =>
                    /\ log.called[ef.function_name] = 1
                    /\ Len(ef.raw.value) >= 1
                    /\ ef.outcome.value = ef.raw.value[1].text
              /\ (ef.pc = "done" /\ ef.raw.kind = "exception") => ef.outcome = ef.raw

\* A single call that entered its session, got an empty content list and
\* failed while extracting the result.
C9_Witness ==
    /\ batch.pc = "single"
    /\ ef.pc = "done"
    /\ ef.outcome = Raised("IndexError", ef.function_name)
    /\ log.opened = 1

\* ------------------------------------------------------------------------
\* Properties of the transport pool (checked under SpecPool)
\* ------------------------------------------------------------------------
ClientError(e) ==
    e.type = "HTTPStatusError" /\ 400 <= e.status /\ e.status <= 499 /\ e.status # 429

Retryable(e) ==
    \/ e.type \in {"RequestError", "TimeoutException"}
    \/ e.type = "HTTPStatusError" /\ ~ClientError(e)

\* C5: once a send of a request was answered with a status in 400..499 other
\* than 429, the request has ended by raising that status error, with no
\* send and no backoff wait after that attempt.
C5_ClientErrorIsFatal ==
    \A r \in 1..MaxRequests :
        ClientError(requests[r].last_failure) =>
            /\ requests[r].pc = "raised"
            /\ requests[r].error = requests[r].last_failure
            /\ Len(requests[r].waits) = requests[r].sends - 1

\* A request that was retried, then answered 404 and ended although
\* attempts remained.
C5_Witness ==
    \E r \in 1..MaxRequests :
        /\ requests[r].pc = "raised"
        /\ requests[r].error = HTTPStatusError(404)
        /\ requests[r].sends >= 2
        /\ requests[r].sends < max_retries

\* C6: a request sends at most max_retries times; its n-th backoff wait is
\* 0.1 x 2^(n-1) seconds; a wait follows every retryable failure that leaves
\* attempts and only those, so that a request ends by raising a retryable
\* failure only after max_retries sends and without a wait after the last
\* one; a request that returns hands back the 2xx response and no error.
C6_RetryWithBackoff ==
    \A r \in 1..MaxRequests :
        LET q == requests[r] IN
        /\ q.sends <= max_retries
        /\ \A n \in 1..Len(q.waits) : q.waits[n] = 2 ^ (n - 1)
        /\ q.pc = "sending" =>
              Len(q.waits) = q.sends /\ q.attempt = q.sends /\ q.sends < max_retries
        /\ q.pc = "sleeping" =>
              Len(q.waits) = q.sends /\ q.sends < max_retries /\ Retryable(q.last_failure)
        /\ q.pc = "returned" =>
              /\ Len(q.waits) = q.sends - 1
              /\ 200 <= q.result /\ q.result <= 299
              /\ q.error = NoException
        /\ (q.pc = "raised" /\ Retryable(q.last_failure)) =>
              q.sends = max_retries /\ Len(q.waits) = q.sends - 1

\* With the default max_retries, a request whose third send succeeded after
\* a 503: two retries, waits of 0.1 s and 0.2 s.
C6_Witness ==
    /\ max_retries = DefaultMaxRetries
    /\ \E r \in 1..MaxRequests :
          /\ requests[r].pc = "returned"
          /\ requests[r].sends = 3
          /\ requests[r].waits = <<1, 2>>
          /\ requests[r].last_failure = HTTPStatusError(503)

\* C7: a request that ended by raising raises the failure observed on its
\* last send.
C7_RaisesLastFailure ==
    \A r \in 1..MaxRequests :
        requests[r].pc = "raised" =>
            /\ requests[r].last_failure # NoException
            /\ requests[r].error = requests[r].last_failure

\* ------------------------------------------------------------------------
\* Properties of the router (checked under SpecRouter)
\* ------------------------------------------------------------------------
\* The template of function i compiles and fully matches the path.
Matches(i) ==
    /\ ~PatternError(functions[i].path)
    /\ fullmatch(functions[i].path, path).ok

LiteralPattern(template) ==
    [i \in 1..Len(Pattern(template)) |->
        IF Pattern(template)[i].kind = "any"
        THEN [kind |-> "literal", val |-> Pattern(template)[i].val]
        ELSE Pattern(template)[i]]

\* The path satisfies the template of function i: the whole path, each
\* placeholder one or more non-"/" characters, the rest character by
\* character.
Satisfies(i) == MatchFrom(LiteralPattern(functions[i].path), 1, path, 1).ok

\* C11: a template is matched against the whole path, each {name} capturing
\* one or more characters other than "/" and every other character of the
\* template matching literally; the router returns a function only when the
\* path satisfies its template; a path satisfying exactly one template
\* yields that function's name and captures; a path satisfying none yields
\* the not-found result and no error.
C11_LiteralWholePathMatch ==
    route.kind # "none" =>
        LET S == {i \in 1..Len(functions) : Satisfies(i)}
        IN  /\ route.kind = "found" =>
                  \E i \in S : route.function_name = functions[i].function_name
            /\ Cardinality(S) = 1 =>
                  \E i \in S :
                      /\ route.kind = "found"
                      /\ route.function_name = functions[i].function_name
                      /\ route.path_parameters =
                             MatchFrom(LiteralPattern(functions[i].path), 1, path, 1).groups
            /\ S = {} => route.kind = "not_found"

\* ------------------------------------------------------------------------
\* Properties of the conversion (checked under SpecConvert)
\* ------------------------------------------------------------------------
\* The parameters are the declared top-level properties, in order.
OnePerProperty(parameters, input_schema) ==
    LET properties == Get(input_schema, "properties", <<>>)
    IN  /\ Len(parameters) = Len(properties)
        /\ \A k \in 1..Len(properties) : parameters[k].name = properties[k].name

\* The path has at least one {var} placeholder.
HasPlaceholder(p) == extract_path_variables(p) # <<>>

\* C13: for every function produced from any response-mapping path, the
\* method is GET if and only if the path contains "{", that is at least one
\* {var} placeholder, and POST otherwise.
C13_GetIffPlaceholder ==
    converted.done =>
        \A k \in 1..Len(converted.result) :
            LET f == converted.result[k]
            IN  /\ f.method \in {"GET", "POST"}
                /\ f.method = "GET" <=> Contains(f.path, "{")
                /\ f.method = "GET" <=> HasPlaceholder(f.path)

\* C14: every top-level parameter of a function with method POST has
\* location body, whatever the nesting or the property names of the tool's
\* schema.
C14_PostParametersInBody ==
    converted.done =>
        \A k \in 1..Len(converted.result) :
            LET f == converted.result[k]
            IN  f.method = "POST" =>
                    /\ OnePerProperty(f.parameters,
                                      converted.tools[f.function_name].input_schema)
                    /\ \A n \in 1..Len(f.parameters) : f.parameters[n].in = "body"

\* A POST function whose tool declares a property named like a placeholder
\* and a property with nested properties.
C14_Witness ==
    /\ converted.done
    /\ \E k \in 1..Len(converted.result) :
          /\ converted.result[k].method = "POST"
          /\ \E n \in 1..Len(converted.result[k].parameters) :
                converted.result[k].parameters[n].name = <<"x">>
          /\ \E n \in 1..Len(converted.result[k].parameters) :
                "properties" \in DOMAIN converted.result[k].parameters[n]

\* C15: each {var} placeholder of the path template of a generated GET
\* function appears in the function's parameters with location path.
C15_PlaceholdersArePathParameters ==
    converted.done =>
        \A k \in 1..Len(converted.result) :
            LET f == converted.result[k]
                names == extract_path_variables(f.path)
            IN  f.method = "GET" =>
                    \A v \in 1..Len(names) :
                        \E n \in 1..Len(f.parameters) :
                            /\ f.parameters[n].name = names[v]
                            /\ f.parameters[n].in = "path"

\* C16 as stated: for every declared property and every method value the
\* location is body when the method is not GET, and for GET it is path if
\* the property name is in path_variables and query otherwise.
C16_BodyUnlessGet ==
    translated.done =>
        /\ OnePerProperty(translated.result, translated.input_schema)
        /\ \A k \in 1..Len(translated.result) :
              translated.result[k].in =
                  IF translated.method # "GET" THEN "body"
                  ELSE IF InList(translated.result[k].name, translated.path_variables)
                       THEN "path"
                       ELSE "query"

\* C16, amended: for every declared property and every method value the
\* location is body when the method is POST; for any other method it is
\* path if the property name is in path_variables and query otherwise.
C16_BodyWhenPost ==
    translated.done =>
        /\ OnePerProperty(translated.result, translated.input_schema)
        /\ \A k \in 1..Len(translated.result) :
              translated.result[k].in =
                  IF translated.method = "POST" THEN "body"
                  ELSE IF InList(translated.result[k].name, translated.path_variables)
                       THEN "path"
                       ELSE "query"

\* A translation for a method that is neither GET nor POST, of a schema
\* that declares a path variable and another property.
C16_Witness ==
    /\ translated.done
    /\ translated.method = "PUT"
    /\ \E k \in 1..Len(translated.result) : translated.result[k].in = "path"
    /\ \E k \in 1..Len(translated.result) : translated.result[k].in = "query"

\* The first segment of a path that starts with "/": what stands between
\* the leading "/" and the next one.
FirstSegment(p) == SubSeq(p, 2, FindFrom(p, "/", 2) - 1)

\* The keys of the mapping table whose first segment names a discovered
\* tool, in table order.
RECURSIVE MatchedKeys(_, _)
MatchedKeys(mappings, tools) ==
    IF mappings = <<>> THEN <<>>
    ELSE (IF FirstSegment(Head(mappings)) \in DOMAIN tools
          THEN <<Head(mappings)>> ELSE <<>>)
         \o MatchedKeys(Tail(mappings), tools)

\* C17: the conversion produces a function for a response-mapping path if
\* and only if the first segment of the path is the name of a tool
\* discovered on the server; paths without a matching tool and tools without
\* a path produce nothing, and the conversion still returns.
C17_FunctionIffToolNamed ==
    converted.done =>
        /\ [k \in 1..Len(converted.result) |-> converted.result[k].path]
               = MatchedKeys(converted.response_mappings, converted.tools)
        /\ \A k \in 1..Len(converted.result) :
              /\ converted.result[k].function_name = FirstSegment(converted.result[k].path)
              /\ converted.result[k].mcp_server = converted.mcp_server_name

\* A conversion whose table has a path that names no discovered tool and,
\* after it, a path that names one.
C17_Witness ==
    /\ converted.done
    /\ Len(converted.response_mappings) = 2
    /\ Len(converted.result) = 1
    /\ converted.result[1].path = converted.response_mappings[2]

\* ------------------------------------------------------------------------
\* Properties of the per-endpoint initialization (checked under SpecRegistry)
\* ------------------------------------------------------------------------
\* The state in use is the cached state of the endpoint.
InUse(e) ==
    /\ e \in DOMAIN endpoint_data
    /\ mcp_servers = endpoint_data[e].mcp_servers
    /\ functions = endpoint_data[e].functions
    /\ mcp_http_clients = endpoint_data[e].mcp_http_clients

\* A step that is a call initialize_for_endpoint(logger, e).
CallFor(e) == now' = now /\ init_call'.endpoint = e

\* C18: once a call for an endpoint has succeeded, every later call for it,
\* whatever was called in between, looks up no servers, discovers no tools,
\* creates no client, leaves the cache as it is and puts exactly the cached
\* servers, functions and client bindings of that endpoint in use.
C18_IdempotentPerTenant ==
    /\ [](init_call.outcome = "returned" => InUse(init_call.endpoint))
    /\ [][\A e \in Endpoints :
              (e \in DOMAIN endpoint_data /\ CallFor(e)) =>
                  /\ init_call'.outcome = "returned"
                  /\ init_call'.lookups = 0
                  /\ init_call'.discoveries = 0
                  /\ init_call'.clients = 0
                  /\ endpoint_data' = endpoint_data
                  /\ mcp_servers' = endpoint_data[e].mcp_servers
                  /\ functions' = endpoint_data[e].functions
                  /\ mcp_http_clients' = endpoint_data[e].mcp_http_clients]_vars

\* A later call for A served from the cache after B was initialized with a
\* different state.
C18_Witness ==
    /\ init_call.endpoint = "A"
    /\ init_call.cached
    /\ InUse("A")
    /\ "B" \in DOMAIN endpoint_data
    /\ endpoint_data["B"] # endpoint_data["A"]
    /\ endpoint_data["A"].functions # <<>>

\* C19: the state of an endpoint is reused only until its cache entry
\* expires: a call that returns puts in use a state that was built less than
\* TTL before the call.
C19_RebuiltAfterTTL ==
    init_call.outcome = "returned" =>
        /\ init_call.endpoint \in DOMAIN built_at
        /\ init_call.at - built_at[init_call.endpoint] < TTL

\* C20: when the server lookup, the discovery of a server's tools or their
\* conversion fails, the call raises, no entry is written for the endpoint,
\* and the next call for the endpoint runs the pipeline from the server
\* lookup on.
C20_FailureCachesNothing ==
    /\ [](init_call.failed # "none" =>
              /\ init_call.outcome = "raised"
              /\ init_call.endpoint \notin DOMAIN endpoint_data)
    /\ [][\A e \in Endpoints :
              (init_call.outcome = "raised" /\ init_call.endpoint = e /\ CallFor(e)) =>
                  /\ ~init_call'.cached
                  /\ init_call'.lookups = 1]_vars

\* The discovery for the second server of A raised after the first server
\* was bound, while B is cached.
C20_Witness ==
    /\ init_call.endpoint = "A"
    /\ init_call.outcome = "raised"
    /\ init_call.failed = "discovery"
    /\ init_call.clients = 1
    /\ "B" \in DOMAIN endpoint_data
    /\ "A" \notin DOMAIN endpoint_data

\* ------------------------------------------------------------------------
\* Properties of the dispatch (checked under SpecDispatch)
\* ------------------------------------------------------------------------
\* The request went past the path check and the marker test, and its path
\* matches the template of no function of the endpoint.
Unrouted ==
    /\ dispatch.pc = "done"
    /\ init_call.outcome = "returned"
    /\ path # <<"/">>
    /\ ~ContainsSub(path, OpenApiMarker)
    /\ \A i \in 1..Len(functions) : ~Matches(i)

\* C12: a request whose path matches no template of the endpoint ends with a
\* route-not-found outcome that is not the unsupported-function error and
\* whose message names the path, and no tool is invoked.
C12_RouteNotFound ==
    Unrouted =>
        /\ dispatch.outcome.kind = "exception"
        /\ dispatch.outcome.value[1].error # "NotSupported"
        /\ dispatch.outcome.value[1].function_name = path
        /\ log.opened = 0
        /\ \A fn \in RegistryTools : log.called[fn] = 0

\* ------------------------------------------------------------------------
\* Properties of the state the router and the engine read
\* ------------------------------------------------------------------------
\* The state a complete build for endpoint e leaves in Config.
CompleteState(e) ==
    [mcp_servers |-> remote[e],
     functions |-> FunctionsFrom(remote[e], response_mappings, 1),
     mcp_http_clients |-> ClientsFor(e, remote[e])]

\* C21: after any call of initialize_for_endpoint, one that raised midway
\* included, the servers, the functions and the client bindings the router
\* and the engine read are those of one completely built endpoint, never a
\* cleared or half-filled list.
C21_NeverPartiallyUpdated ==
    init_call # NoInit =>
        \E e \in Endpoints :
            /\ mcp_servers = CompleteState(e).mcp_servers
            /\ functions = CompleteState(e).functions
            /\ mcp_http_clients = CompleteState(e).mcp_http_clients

\* ------------------------------------------------------------------------
\* Properties of the memoized steps (checked under SpecMemo)
\* ------------------------------------------------------------------------
\* The items of a dict or the elements of a list, whatever their order.
Items(s) == {s[i] : i \in 1..Len(s)}

\* Two argument records of one step differ in nothing but the order of the
\* headers, of the tools or of the response mappings.
SameStructure(step, x, y) ==
    IF step = "get_mcp_servers_for_endpoint"
    THEN /\ x.endpoint_id = y.endpoint_id
         /\ x.internal_mcp.configured = y.internal_mcp.configured
         /\ x.internal_mcp.base_url = y.internal_mcp.base_url
         /\ Items(x.internal_mcp.headers) = Items(y.internal_mcp.headers)
    ELSE IF step = "get_mcp_tools"
    THEN /\ x.mcp_server.name = y.mcp_server.name
         /\ x.mcp_server.base_url = y.mcp_server.base_url
         /\ Items(x.mcp_server.headers) = Items(y.mcp_server.headers)
    ELSE /\ Items(x.tools) = Items(y.tools)
         /\ x.server_name = y.server_name
         /\ Items(x.mappings) = Items(y.mappings)

\* C22: calls of a memoized step whose headers, tool list or response
\* mappings are the same up to their order share one cache entry, so the
\* step is computed once for them.
C22_OrderIndependentKeys ==
    \A c \in method_cache, d \in method_cache :
        c.step = d.step /\ SameStructure(c.step, c.args, d.args) => c = d

\* ------------------------------------------------------------------------
\* Properties of requests dispatched at the same time (checked under
\* SpecThreads)
\* ------------------------------------------------------------------------
\* The threads serve different endpoints.
DifferentTenants == \A t \in DOMAIN threads, u \in DOMAIN threads :
                        t # u => threads[t].endpoint # threads[u].endpoint

\* What the router answers for the request of thread t on the functions of
\* its own endpoint.
OwnRoute(t) ==
    get_function_name_and_path_parameters(CompleteState(threads[t].endpoint).functions,
                                          threads[t].path)

\* C23: when requests of different endpoints are dispatched at the same
\* time, each request's path is resolved against the functions of its own
\* endpoint and its tool is called through a client of its own endpoint.
C23_TenantsIndependent ==
    DifferentTenants =>
        \A t \in DOMAIN threads :
            /\ threads[t].pc \in {"bind", "done"} => threads[t].route = OwnRoute(t)
            /\ threads[t].pc = "done" /\ threads[t].route.kind = "found" =>
                   threads[t].client =
                       StartCall(CompleteState(threads[t].endpoint).mcp_http_clients,
                                 threads[t].route.function_name).client

\* Both threads found no entry for their endpoint, the same one, and build
\* its state.
BothBuildSameTenant ==
    \A t \in DOMAIN threads, u \in DOMAIN threads :
        threads[t].endpoint = threads[u].endpoint /\ threads[t].built

\* C24: when two first initializations of one endpoint run at the same time,
\* every entry written to _endpoint_data, the one that stays included, is
\* the complete state a single build produces: no function or client
\* binding is doubled, missing or foreign.
C24_BenignRace ==
    BothBuildSameTenant =>
        \A e \in DOMAIN endpoint_data :
            endpoint_data[e] = Entry(CompleteState(e).mcp_servers,
                                     CompleteState(e).mcp_http_clients,
                                     CompleteState(e).functions)

\* ------------------------------------------------------------------------
\* Properties of the manager of the pools (checked under SpecManager)
\* ------------------------------------------------------------------------
\* The pools the manager holds.
Held(m) == {m.clients[i].pool : i \in 1..Len(m.clients)}

\* A call of close_all ends in this step.
CloseAllEnds ==
    /\ manager'.close_all.pc \in {"done", "raised"}
    /\ manager.close_all.pc = "awaiting" \/ manager'.close_all # manager.close_all

\* C25: the manager holds one pool per base URL; get_or_create_client makes
\* a pool only for a URL it holds none for and otherwise returns the pool it
\* holds; close_all attempts to close every pool the manager holds, whether
\* or not a close fails, and leaves the manager without any pool.
C25_OnePoolPerUrl ==
    /\ [](\A i \in 1..Len(manager.clients), j \in 1..Len(manager.clients) :
              manager.clients[i].base_url = manager.clients[j].base_url => i = j)
    /\ [](manager.got # NoGet => manager.got.created = ~manager.got.known)
    /\ [][CloseAllEnds =>
              /\ manager'.close_all.pc = "done"
              /\ manager'.clients = <<>>
              /\ Held(manager) \subseteq manager'.close_all.attempted]_vars

\* ------------------------------------------------------------------------
\* Properties of the counters of a pool (checked under SpecPool)
\* ------------------------------------------------------------------------
\* Call r of _request_with_retry has begun and has neither returned nor
\* raised.
InFlight(r) == requests[r].pc \in {"sending", "sleeping"}

\* C26: however the requests interleave and end, total_requests is the sum
\* of successful_requests, failed_requests and concurrent_requests,
\* concurrent_requests lies between 0 and max_concurrent_requests and is 0
\* when no request is in flight, and max_concurrent_requests never decreases.
C26_CountersConsistent ==
    /\ [](/\ metrics.total_requests = metrics.successful_requests
                  + metrics.failed_requests + metrics.concurrent_requests
          /\ 0 <= metrics.concurrent_requests
          /\ metrics.concurrent_requests <= metrics.max_concurrent_requests
          /\ (\A r \in DOMAIN requests : ~InFlight(r)) => metrics.concurrent_requests = 0)
    /\ [][metrics'.max_concurrent_requests >= metrics.max_concurrent_requests]_vars

RECURSIVE SumUpTo(_, _)
SumUpTo(f, n) == IF n = 0 THEN 0 ELSE f[n] + SumUpTo(f, n - 1)

\* How many of the calls satisfy P.
Count(P(_)) == SumUpTo([r \in DOMAIN requests |-> IF P(r) THEN 1 ELSE 0], Len(requests))

\* Send attempts call r has begun, and those that are over.
AttemptsBegun(r) == requests[r].sends + (IF requests[r].pc = "sending" THEN 1 ELSE 0)
AttemptsOver(r) == requests[r].sends

\* In this step a send attempt of call r is answered with a response.
GotResponse(r) ==
    /\ requests'[r].sends = requests[r].sends + 1
    /\ requests'[r].pc = "returned" \/ requests'[r].last_failure.type = "HTTPStatusError"

\* The responses counted by protocol version.
Versions(m) == m.http2_requests + m.http1_requests

VersionCountedPerResponse ==
    Versions(metrics') = Versions(metrics)
                         + (IF \E r \in DOMAIN requests : GotResponse(r) THEN 1 ELSE 0)

Begun(r) == requests[r].pc # "idle"
HasReturned(r) == requests[r].pc = "returned"
GaveUp(r) == requests[r].pc = "raised" /\ requests[r].error # OtherError

Served == dispatch.pc = "done" /\ init_call.outcome = "returned"

\* Neither the router nor a tool was reached by the request.
NothingCalled ==
    /\ route = NoRoute
    /\ ef = NoCall
    /\ log.opened = 0
    /\ \A fn \in RegistryTools : log.called[fn] = 0

\* The marker openapi.yaml occurs somewhere in the path of the request.
HasMarker ==
    \E i \in 1..Len(path) :
        /\ i + Len(OpenApiMarker) - 1 <= Len(path)
        /\ \A k \in 1..Len(OpenApiMarker) : path[i + k - 1] = OpenApiMarker[k]

\* C28: a request, of an endpoint whose initialization returned, whose path
\* contains the marker openapi.yaml returns the description of the
\* endpoint's functions; the router is not asked and no tool is called.
C28_MarkerDescribes ==
    Served /\ HasMarker =>
        /\ dispatch.outcome =
               Returned(generate_swagger_yaml(CompleteState(dispatch.endpoint).functions))
        /\ NothingCalled

\* The marker follows a segment, the endpoint has functions, and the router
\* would have resolved the path to one of them.
C28_Witness ==
    /\ Served
    /\ path = <<"/", "a", "/">> \o OpenApiMarker
    /\ dispatch.outcome.kind = "result"
    /\ dispatch.outcome.value # <<>>
    /\ \E i \in 1..Len(functions) : Matches(i)

\* C29: a request, of an endpoint whose initialization returned, with an
\* empty or missing path raises the "path is required" error, which is not
\* the outcome of a path no function matches; the router is not asked and
\* no tool is called.
C29_PathRequired ==
    /\ Served /\ path = <<"/">> =>
           /\ dispatch.outcome = Raised("PathRequired", <<>>)
           /\ NothingCalled
    /\ Unrouted => dispatch.outcome # Raised("PathRequired", <<>>)

\* A request without path for an endpoint that has functions.
C29_Witness ==
    /\ Served
    /\ path = <<"/">>
    /\ functions # <<>>
    /\ dispatch.outcome = Raised("PathRequired", <<>>)

\* The first function whose template matches the path: the one the router
\* resolved the path to.
RoutedFunction == functions[CHOOSE i \in 1..Len(functions) :
                                /\ Matches(i)
                                /\ \A j \in 1..(i - 1) : ~Matches(j)]

\* C30: when the router resolved the path to a function, execute_function
\* takes the client bound to the server that function came from, also when
\* several servers expose the tool or several templates match; it never
\* answers that the function is not supported.
C30_OwnServerClient ==
    route.kind = "found" /\ dispatch.pc = "executing" =>
        /\ ef.client = dispatch.endpoint \o "/" \o RoutedFunction.mcp_server
        /\ ef.outcome # Raised("NotSupported", route.function_name)

\* Two servers expose the tool, two templates match the path, and the call
\* is under way.
C30_Witness ==
    /\ dispatch.pc = "executing"
    /\ route.kind = "found"
    /\ ef.pc = "calling"
    /\ Cardinality({k \in 1..Len(mcp_http_clients) :
                       route.function_name \in mcp_http_clients[k].tools}) = 2
    /\ Cardinality({i \in 1..Len(functions) :
                       Matches(i) /\ functions[i].mcp_server = "s1"}) = 2

\* ------------------------------------------------------------------------
\* C31: in every cached endpoint entry no two functions have the same path
\* template, whatever servers and tools were discovered, so a published
\* path and method denote a single function.
\* ------------------------------------------------------------------------
SamePath(fs) ==
    \E i \in 1..Len(fs) : \E j \in 1..Len(fs) : i # j /\ fs[i].path = fs[j].path

C31_TemplatesUnique ==
    \A e \in DOMAIN endpoint_data : ~SamePath(endpoint_data[e].functions)

\* ------------------------------------------------------------------------
\* C32: a call of initialize_for_endpoint for one endpoint, whether it
\* returns or raises, leaves the cached entry of every other endpoint as it
\* is (same servers, functions and client bindings in the same order), and
\* a later call for such an endpoint puts exactly its entry in use.
\* ------------------------------------------------------------------------
\* The request at hand was served from the cache and is past the check.
ServedFromCache(t) ==
    /\ threads[t].pc \in {"route", "bind", "done"}
    /\ ~threads[t].built

C32_OtherEntriesKept ==
    /\ [][\A e \in DOMAIN endpoint_data :
              e # threads[1].endpoint =>
                  /\ e \in DOMAIN endpoint_data'
                  /\ endpoint_data'[e] = endpoint_data[e]]_vars
    /\ [][\A e \in DOMAIN endpoint_data :
              (threads[1].endpoint = e /\ threads[1].pc = "start"
                  /\ threads'[1].pc # "start") =>
                  /\ endpoint_data' = endpoint_data
                  /\ mcp_servers' = endpoint_data[e].mcp_servers
                  /\ functions' = endpoint_data[e].functions
                  /\ mcp_http_clients' = endpoint_data[e].mcp_http_clients]_vars
    /\ [](ServedFromCache(1) => InUse(threads[1].endpoint))

\* A is served from its entry, which holds functions, and the lists in use
\* are the cached ones; B was built with a different state.
C32_Witness ==
    /\ threads[1].endpoint = "A"
    /\ ServedFromCache(1)
    /\ aliased.functions = "A"
    /\ endpoint_data["A"].functions # <<>>
    /\ "B" \in DOMAIN endpoint_data
    /\ endpoint_data["B"] # endpoint_data["A"]

\* ------------------------------------------------------------------------
\* C33: for a batch in which every call has a client and every tool call
\* returns its content, concurrent mode returns in each slot the value
\* sequential mode returns there: the text of the first content item.
\* ------------------------------------------------------------------------
\* What sequential mode returns for a call of fn whose tool returned.
SequentialValue(fn) == ExtractText(Returned(Content(fn)), fn)

AllBoundAllSucceeded ==
    /\ \A i \in 1..Len(tool_calls) : Bound(tool_calls[i])
    /\ \A j \in 1..Len(tasks) : tasks[j].raw = Returned(Content(tasks[j].function_name))

C33_SameAsSequential ==
    (ConcurrentReturned /\ AllBoundAllSucceeded) =>
        /\ Len(batch.results) = Len(tool_calls)
        /\ \A i \in 1..Len(tool_calls) :
              batch.results[i] = SequentialValue(tool_calls[i])

\* The sequential side of the comparison: a returned sequential batch holds
\* the text of the first content item in each slot.
C33_SequentialSide ==
    (batch.mode = "sequential" /\ batch.pc = "returned") =>
        \A i \in 1..Len(tool_calls) :
            batch.results[i] = SequentialValue(tool_calls[i])

\* ------------------------------------------------------------------------
\* C34: in concurrent mode the calls bound to one client never hold
\* sessions on it at the same time, and the session of a client is never
\* exited by one call while a sibling that entered the same client is still
\* waiting for its tool result.
\* ------------------------------------------------------------------------
\* Task k has entered client c and its tool call has not returned yet.
Waiting(k, c) == tasks[k].client = c /\ tasks[k].pc = "calling"

\* The step in which task j leaves its session.
Exits(j) == tasks[j].pc = "exiting" /\ tasks'[j].pc = "done"

C34_NoOverlappingSessions ==
    /\ [](batch.mode = "concurrent" => \A c \in DOMAIN sessions : sessions[c] <= 1)
    /\ [][\A j \in 1..Len(tasks) :
              Exits(j) => \A k \in 1..Len(tasks) : ~Waiting(k, tasks[j].client)]_vars

\* ------------------------------------------------------------------------
\* C35: in every state of a pool http2_requests + http1_requests is at most
\* total_requests, so the http2_usage_percent of get_metrics_summary lies
\* between 0 and 100.
\* ------------------------------------------------------------------------
C35_UsageIsAPercentage ==
    /\ Versions(metrics) <= metrics.total_requests
    /\ 0 <= http2_usage_percent(metrics)
    /\ http2_usage_percent(metrics) <= 100 * 100

\* The part about the reported value alone.
C35_ReportedInRange == http2_usage_percent(metrics) <= 100 * 100

\* ------------------------------------------------------------------------
\* C36: with the configuration Config.initialize leaves,
\* execute_concurrent_functions reaches one of its two modes: the flag it
\* reads has a value, and a batch does not raise before a member call was
\* started.
\* ------------------------------------------------------------------------
BatchBegun == batch.pc \notin {"idle", "single"}

C36_FlagHasAValue ==
    BatchBegun =>
        /\ enable_concurrent_requests # Undefined
        /\ batch.mode \in {"sequential", "concurrent"}
        /\ batch.pc = "raised" => Len(batch.started) >= 1

\* Once the attribute has been assigned from outside the class, a batch
\* reaches a mode and raises only at a member call.
C36_WithFlagAssigned ==
    (BatchBegun /\ enable_concurrent_requests # Undefined) =>
        /\ batch.mode \in {"sequential", "concurrent"}
        /\ batch.pc = "raised" => Len(batch.started) >= 1

====
